---- MODULE Spec2Model ----
(***************************************************************************)
(* A model of the r-listener crawler: its screen recording lifecycle, its  *)
(* two retry layers, the crawl itself under main, the scrolling that       *)
(* precedes a gesture, the coordinates of the gestures, the cost and the   *)
(* parsing of a completion, and the upsert of a reel.                      *)
(*                                                                         *)
(*   EnhancedActionsService.startScreenRecording / saveScreenRecording,    *)
(*   isElementVisible, scrollToElement, ensureElementVisible,              *)
(*   tapRandomPointInElement, tapRandomPointAboveElement, swipeScreen,     *)
(*   swipeWithinElement, swipeStartingFromElement                          *)
(*       src/src/automation/services/enhanced-actions.service.ts           *)
(*   VertexCompletionClient.retryWithExponentialBackoff, promptWithImage,  *)
(*   promptWithVideo, calculateCost, parseResultIntoJSON                   *)
(*       src/src/gcp/clients/vertex-completion.client.ts                   *)
(*   MediaAnalysisService.analyze                                          *)
(*       src/unnamed/part_004 (schema.parse) and                           *)
(*       src/unnamed/part_003 (schema.safeParse)                           *)
(*   InstagramCrawler.crawl, crawlProfile, crawlReels                      *)
(*       src/unnamed/part_006                                              *)
(*   main, initializeServices, cleanup                                     *)
(*       src/src/index.ts, src/src/utils/service-initializer.ts            *)
(*   ReelsService.upsertReel, ReelDao.upsert, parseUploadedAt              *)
(*       src/unnamed/part_009, src/unnamed/part_007,                       *)
(*       src/src/utils/sleep.ts                                            *)
(*                                                                         *)
(* Each component has a specification of its own (SpecRecording,           *)
(* SpecRetry, SpecAnalyze, SpecCrawl, SpecScroll, SpecGesture, SpecCost,   *)
(* SpecParse, SpecReels)                                                   *)
(* over the one tuple of variables; a component's specification leaves     *)
(* the variables it does not use at their initial values.  SpecCrawl       *)
(* awaits the recording methods as the crawler does, one at a time, on the *)
(* same flag.                                                              *)
(***************************************************************************)
EXTENDS Integers, Sequences, FiniteSets, TLC

VARIABLES
    \* ---- EnhancedActionsService (one instance)
    is_screen_recording,   \* the private flag, enhanced-actions.service.ts:14
    calls,                 \* the async invocations of start/save, one per slot
    invoked,               \* number of start/save invocations made so far
    driver_starts,         \* web_driver.startRecordingScreen() calls issued
    driver_stops,          \* web_driver.stopRecordingScreen() calls issued
    write_calls,           \* fs.writeFile() calls issued by saveScreenRecording
    capture_running,       \* TRUE while the driver is capturing the screen
    \* ---- VertexCompletionClient.retryWithExponentialBackoff (one invocation)
    retry_cfg,             \* config: maxAttempts, initialDelay, maxDelay
    retry_pc,              \* "idle", "attempt", "sleeping", "returned", "threw"
    attempt,               \* the loop variable of line 80
    delay,                 \* the local of line 78
    sleeps,                \* the setTimeout delays of line 104, in order
    op_calls,              \* invocations of operation() by this invocation
    retry_val,             \* what the invocation returned
    retry_err,             \* what the invocation threw
    last_outcome,          \* what the latest operation() call did
    \* ---- the operation handed to a direct retry call
    plan_failures,         \* transient failures in a row before it succeeds
    plan_fatal_at,         \* the call that fails otherwise (0: none)
    \* ---- MediaAnalysisService.analyze (one call)
    an_variant,            \* "parse" (part_004) or "safeParse" (part_003)
    an_input,              \* the MediaAnalysisInput: type, analysis_name
    an_pc,                 \* "idle", "dispatch", "prompting", "returned", "threw"
    retryCount,            \* the parameter of the current recursive call
    prompt_calls,          \* promptWithImage / promptWithVideo calls made
    model_requests,        \* model.generateContent calls made
    an_result,             \* the MediaAnalysisResult returned
    an_err,                \* what analyze threw
    no_text_at,            \* the model request answered without text (0: none)
    null_completions,      \* prompt calls that returned null
    plan_invalid,          \* leading attempts whose response misses the schema
    \* ---- main and initializeServices / cleanup (one process run)
    main_pc,               \* position of main() and of the functions it awaits
    services,              \* TRUE once index.ts:8 has assigned `services`
    main_logged,           \* the error the catch of index.ts:16 logged
    prisma_handle,         \* "none", "open", "released", "release_failed"
    driver_session,        \* "none", "open", "closed", "close_failed"
    cleanup_runs,          \* invocations of cleanup()
    delete_session_calls,  \* webDriver.deleteSession() calls issued
    disconnect_calls,      \* prismaClient.$disconnect() calls issued
    \* ---- InstagramCrawler.crawl (one call)
    stack,                 \* the frames of crawl, crawlProfile, crawlReels
    crawl_status,          \* "idle", "running", "returned", "threw"
    crawl_err,             \* what crawl threw
    failure,               \* the first step that failed, and where
    device_actions,        \* driver and gesture calls issued by the crawler
    analysis_calls,        \* media_analysis_service.analyze calls issued
    db_profiles,           \* upsertProfile calls that succeeded, in order
    db_reels,              \* upsertReelWithComments calls that succeeded
    db_accounts,           \* usernames of the account table's rows
    fs_files,              \* the temporary files that exist
    files_made,            \* temporary files created so far
    pending_reads,         \* reads of the batch of lines 177-188 in flight
    \* ---- scrollToElement / tapRandomPointInElement (one call)
    sc_pc,                 \* position of the call
    sc_op,                 \* "scroll" or "tap": the method the caller invoked
    sc_alignToTop,         \* the parameter alignToTop
    sc_maxAttempts,        \* the parameter maxAttempts
    attempts,              \* the local of line 49
    elem,                  \* the geometry the driver reported last
    position,              \* the latest classification of the element
    last_attr,             \* outcome of the latest "visible" attribute query
    last_visible,          \* what the latest isElementVisible call returned
    swipes,                \* swipeScreen calls issued by scrollToElement
    settle_pauses,         \* the pauses of line 81 issued
    last_swipe,            \* direction and length of the latest swipe
    sc_err,                \* what the call threw
    acted,                 \* "none", "tap", "click": the gesture on the element
    tap_point,             \* the point handed to web_driver.tap
    exhausted,             \* TRUE once the loop of line 51 ran out of attempts
    \* ---- the gestures of EnhancedActionsService (one call)
    gesture,               \* the call, its arguments and its driver call
    \* ---- VertexCompletionClient.calculateCost (calls on one result)
    cost_model,            \* the model name the client was built with
    cost_usage,            \* usageMetadata of the result
    cost_half_up,          \* the floating-point total at an exact half
    cost_results,          \* what the calls returned, in millionths
    \* ---- VertexCompletionClient.parseResultIntoJSON (one call)
    parse_payload,         \* the JSON the model answered with
    parse_fencing,         \* how the model wrapped it
    parse_text,            \* the text of the response, the argument
    parse_out,             \* what the call returned or threw
    \* ---- ReelsService.upsertReel (calls on one service, one after another)
    clock_now,             \* what new Date() returns, in milliseconds
    reel_rows,             \* the rows of the reel table, in creation order
    reel_log               \* the reel_data of the calls that returned

recVars == <<is_screen_recording, calls, invoked, driver_starts, driver_stops,
             write_calls, capture_running>>

retryVars == <<retry_cfg, retry_pc, attempt, delay, sleeps, op_calls,
               retry_val, retry_err, last_outcome>>

planVars == <<plan_failures, plan_fatal_at>>

anVars == <<an_variant, an_input, an_pc, retryCount, prompt_calls,
            model_requests, an_result, an_err, no_text_at, null_completions,
            plan_invalid>>

mainVars == <<main_pc, services, main_logged, prisma_handle, driver_session,
              cleanup_runs, delete_session_calls, disconnect_calls>>

crawlVars == <<stack, crawl_status, crawl_err, failure, device_actions,
               analysis_calls, db_profiles, db_reels, db_accounts, fs_files,
               files_made, pending_reads>>

scrollVars == <<sc_pc, sc_op, sc_alignToTop, sc_maxAttempts, attempts, elem,
                position, last_attr, last_visible, swipes, settle_pauses,
                last_swipe, sc_err, acted, tap_point, exhausted>>

gestureVars == <<gesture>>

costVars == <<cost_model, cost_usage, cost_half_up, cost_results>>

parseVars == <<parse_payload, parse_fencing, parse_text, parse_out>>

reelVars == <<clock_now, reel_rows, reel_log>>

pureVars == <<gestureVars, costVars, parseVars, reelVars>>

vars == <<is_screen_recording, calls, invoked, driver_starts, driver_stops,
          write_calls, capture_running, retry_cfg, retry_pc, attempt, delay, sleeps, op_calls,
          retry_val, retry_err, last_outcome, plan_failures, plan_fatal_at,
          an_variant, an_input, an_pc, retryCount, prompt_calls,
          model_requests, an_result, an_err, no_text_at, null_completions,
          plan_invalid, main_pc, services, main_logged, prisma_handle,
          driver_session, cleanup_runs, delete_session_calls,
          disconnect_calls, stack, crawl_status, crawl_err, failure,
          device_actions, analysis_calls, db_profiles, db_reels, db_accounts,
          fs_files,
          files_made, pending_reads, sc_pc, sc_op, sc_alignToTop,
          sc_maxAttempts, attempts,
          elem, position, last_attr, last_visible, swipes, settle_pauses,
          last_swipe, sc_err, acted, tap_point, exhausted, gesture,
          cost_model, cost_usage, cost_half_up, cost_results,
          parse_payload, parse_fencing, parse_text, parse_out,
          clock_now, reel_rows, reel_log>>

(***************************************************************************)
(* Bounds of the model.                                                    *)
(***************************************************************************)
\* start/save invocations made on the one service instance
MaxInvocations == 4
\* invocations that may be suspended at an await at the same time
MaxInFlight == 2
\* largest maxAttempts of a retry config
MaxAttemptsBound == 5
\* largest number of transient failures the operation has in store; above
\* MaxAttemptsBound, so that an operation that never succeeds within the
\* attempts is among the cases
MaxFailures == 6
\* largest number of leading analyze attempts whose response misses the
\* schema; above maxRetries + 1, so that "every response fails" is a case
MaxInvalid == 5
\* the range of the reel limit the explored crawlReels calls draw from
MinReels == 1
MaxReels == 2
\* largest number of mention elements a caption shows
MaxMentions == 2
\* largest maxAttempts passed to scrollToElement by a direct call
MaxScrollAttempts == 3
\* the window size the driver reports
WindowWidth == 20
WindowHeight == 20
\* Math.random() gives k / RandomSteps for an integer 0 <= k < RandomSteps
RandomSteps == 4
\* the window size the driver reports to the gestures
ScreenWidth == 375
ScreenHeight == 667
\* largest token count of a usageMetadata field
MaxTokens == 12
\* calculateCost calls made on one result
MaxCostCalls == 2
\* upsertReel calls made on the one service
MaxReelCalls == 2
\* milliseconds that pass while the calls are made
MaxClock == 2

Min(a, b) == IF a <= b THEN a ELSE b
Max(a, b) == IF a >= b THEN a ELSE b

\* Math.random(): 0, about one half, and the largest value below 1
Rands == {0, RandomSteps \div 2, RandomSteps - 1}

\* Math.random() * v for v a count that RandomSteps divides, and
\* Math.floor(Math.random() * v) for every v >= 0
RandomOf(k, v) == (k * v) \div RandomSteps

\* (Math.random() - 0.5) * v, for v a count that 2 * RandomSteps divides
CenteredOf(k, v) == ((2 * k - RandomSteps) * v) \div (2 * RandomSteps)

\* Math.round of a count of 1 / scale pixels: the nearest integer, a half
\* rounded up
Round(v, scale) == (2 * v + scale) \div (2 * scale)

NoPoint == [x |-> 0 - 1, y |-> 0 - 1]

(***************************************************************************)
(* Screen recording: startScreenRecording / saveScreenRecording.           *)
(* An invocation runs synchronously up to its first await; every await is  *)
(* a step boundary, so two invocations made without awaiting the first     *)
(* interleave exactly at those points.                                     *)
(***************************************************************************)
Slots == 1..MaxInFlight

\* op: which method; pc: where the invocation is; entry_flag: the value of
\* is_screen_recording the invocation read on entry; id: its number in
\* invocation order; err: what it threw.
IdleCall == [op |-> "none", pc |-> "idle", entry_flag |-> FALSE, id |-> 0,
             err |-> "none"]

Settled(c) == calls[c].pc \in {"idle", "returned", "threw"}

\* The screen capture of the driver after a startRecordingScreen or
\* stopRecordingScreen command (lines 882 and 903) has settled: one that
\* resolved has started or stopped the capture, one that rejected has left
\* it as it was.
DriverAfter(command, ok, running) ==
    IF ok THEN command = "start" ELSE running

\* startScreenRecording with the guard of lines 873-878 left out.
StartScreenRecordingUnguarded(c) ==
    /\ Settled(c)
    /\ invoked < MaxInvocations
    /\ invoked' = invoked + 1
    /\ is_screen_recording' = TRUE
    /\ driver_starts' = driver_starts + 1
    /\ calls' = [calls EXCEPT ![c] =
                    [op |-> "start", pc |-> "await_start",
                     entry_flag |-> is_screen_recording, id |-> invoked + 1,
                     err |-> "none"]]
    /\ UNCHANGED <<driver_stops, write_calls, capture_running>>
    /\ UNCHANGED <<retryVars, planVars, pureVars, anVars,
                 mainVars, crawlVars, scrollVars>>

\* startScreenRecording, lines 872-883, up to its await.
StartScreenRecording(c) ==
    /\ Settled(c)
    /\ invoked < MaxInvocations
    /\ invoked' = invoked + 1
    /\ IF is_screen_recording
       THEN \* warn and return
            /\ calls' = [calls EXCEPT ![c] =
                            [op |-> "start", pc |-> "returned",
                             entry_flag |-> TRUE, id |-> invoked + 1,
                             err |-> "none"]]
            /\ UNCHANGED <<is_screen_recording, driver_starts>>
       ELSE /\ is_screen_recording' = TRUE
            /\ driver_starts' = driver_starts + 1
            /\ calls' = [calls EXCEPT ![c] =
                            [op |-> "start", pc |-> "await_start",
                             entry_flag |-> FALSE, id |-> invoked + 1,
                             err |-> "none"]]
    /\ UNCHANGED <<driver_stops, write_calls, capture_running>>
    /\ UNCHANGED <<retryVars, planVars, pureVars, anVars,
                 mainVars, crawlVars, scrollVars>>

\* The awaited web_driver.startRecordingScreen() settles (line 882): the
\* method returns, or the driver's rejection propagates.
DriverStartSettles(c) ==
    /\ calls[c].pc = "await_start"
    /\ \E ok \in BOOLEAN :
          /\ calls' = [calls EXCEPT
                          ![c].pc = IF ok THEN "returned" ELSE "threw",
                          ![c].err = IF ok THEN "none" ELSE "driver"]
          /\ capture_running' = DriverAfter("start", ok, capture_running)
    /\ UNCHANGED <<is_screen_recording, invoked, driver_starts, driver_stops,
                   write_calls>>
    /\ UNCHANGED <<retryVars, planVars, pureVars, anVars,
                 mainVars, crawlVars, scrollVars>>

\* saveScreenRecording with the guard of lines 890-892 left out.
SaveScreenRecordingUnguarded(c) ==
    /\ Settled(c)
    /\ invoked < MaxInvocations
    /\ invoked' = invoked + 1
    /\ is_screen_recording' = FALSE
    /\ driver_stops' = driver_stops + 1
    /\ calls' = [calls EXCEPT ![c] =
                    [op |-> "save", pc |-> "await_stop",
                     entry_flag |-> is_screen_recording, id |-> invoked + 1,
                     err |-> "none"]]
    /\ UNCHANGED <<driver_starts, write_calls, capture_running>>
    /\ UNCHANGED <<retryVars, planVars, pureVars, anVars,
                 mainVars, crawlVars, scrollVars>>

\* saveScreenRecording, lines 889-903, up to its first await.
SaveScreenRecording(c) ==
    /\ Settled(c)
    /\ invoked < MaxInvocations
    /\ invoked' = invoked + 1
    /\ IF ~is_screen_recording
       THEN \* throw new Error("Screen recording not started")
            /\ calls' = [calls EXCEPT ![c] =
                            [op |-> "save", pc |-> "threw",
                             entry_flag |-> FALSE, id |-> invoked + 1,
                             err |-> "not_started"]]
            /\ UNCHANGED <<is_screen_recording, driver_stops>>
       ELSE /\ is_screen_recording' = FALSE
            /\ driver_stops' = driver_stops + 1
            /\ calls' = [calls EXCEPT ![c] =
                            [op |-> "save", pc |-> "await_stop",
                             entry_flag |-> TRUE, id |-> invoked + 1,
                             err |-> "none"]]
    /\ UNCHANGED <<driver_starts, write_calls, capture_running>>
    /\ UNCHANGED <<retryVars, planVars, pureVars, anVars,
                 mainVars, crawlVars, scrollVars>>

\* The awaited web_driver.stopRecordingScreen() settles (line 903); on
\* success the bytes are decoded and fs.writeFile is issued (lines 904-906).
DriverStopSettles(c) ==
    /\ calls[c].pc = "await_stop"
    /\ \E ok \in BOOLEAN :
          /\ capture_running' = DriverAfter("stop", ok, capture_running)
          /\ IF ok
             THEN /\ calls' = [calls EXCEPT ![c].pc = "await_write"]
                  /\ write_calls' = write_calls + 1
             ELSE /\ calls' = [calls EXCEPT ![c].pc = "threw",
                                            ![c].err = "driver"]
                  /\ UNCHANGED write_calls
    /\ UNCHANGED <<is_screen_recording, invoked, driver_starts, driver_stops>>
    /\ UNCHANGED <<retryVars, planVars, pureVars, anVars,
                 mainVars, crawlVars, scrollVars>>

\* The awaited fs.writeFile settles (line 906); on success the ffmpeg
\* re-encode is started (lines 908-925).
WriteFileSettles(c) ==
    /\ calls[c].pc = "await_write"
    /\ \E ok \in BOOLEAN :
          calls' = [calls EXCEPT ![c].pc = IF ok THEN "await_ffmpeg" ELSE "threw",
                                 ![c].err = IF ok THEN "none" ELSE "fs"]
    /\ UNCHANGED <<is_screen_recording, invoked, driver_starts, driver_stops,
                   write_calls, capture_running>>
    /\ UNCHANGED <<retryVars, planVars, pureVars, anVars,
                 mainVars, crawlVars, scrollVars>>

\* ffmpeg emits "end" or "error" (lines 922-923); the method returns the
\* re-encoded path or rejects.
FfmpegSettles(c) ==
    /\ calls[c].pc = "await_ffmpeg"
    /\ \E ok \in BOOLEAN :
          calls' = [calls EXCEPT ![c].pc = IF ok THEN "returned" ELSE "threw",
                                 ![c].err = IF ok THEN "none" ELSE "ffmpeg"]
    /\ UNCHANGED <<is_screen_recording, invoked, driver_starts, driver_stops,
                   write_calls, capture_running>>
    /\ UNCHANGED <<retryVars, planVars, pureVars, anVars,
                 mainVars, crawlVars, scrollVars>>

RecordingNext ==
    \E c \in Slots :
        \/ StartScreenRecording(c)
        \/ DriverStartSettles(c)
        \/ SaveScreenRecording(c)
        \/ DriverStopSettles(c)
        \/ WriteFileSettles(c)
        \/ FfmpegSettles(c)

(***************************************************************************)
(* VertexCompletionClient.retryWithExponentialBackoff.                     *)
(***************************************************************************)
\* defaultRetryConfig, vertex-completion.client.ts:44-48
DefaultMaxAttempts == 3
DefaultInitialDelay == 1000
DefaultMaxDelay == 10 * 1000

DefaultRetryConfig ==
    [maxAttempts |-> DefaultMaxAttempts, initialDelay |-> DefaultInitialDelay,
     maxDelay |-> DefaultMaxDelay]

\* The configs a direct call is made with: the default one among them, and
\* delays that reach maxDelay within the attempts.
RetryConfigs ==
    [maxAttempts : 1..MaxAttemptsBound,
     initialDelay : {0, DefaultInitialDelay, 3000},
     maxDelay : {5000, DefaultMaxDelay}]

\* What a catch clause can tell about an error: its class, and whether its
\* message includes "503". tag tells the errors of the model apart.
ErrSyntax     == [cls |-> "SyntaxError", has503 |-> FALSE, tag |-> "json_parse"]
ErrOverloaded == [cls |-> "GoogleGenerativeAIError", has503 |-> TRUE,
                  tag |-> "overloaded"]
ErrGoogleOther == [cls |-> "GoogleGenerativeAIError", has503 |-> FALSE,
                   tag |-> "google_other"]
ErrPlain503   == [cls |-> "Error", has503 |-> TRUE, tag |-> "plain_503"]
ErrNetwork    == [cls |-> "Error", has503 |-> FALSE, tag |-> "network"]
\* new Error("... model did not return text."), lines 179-183, 225-229
ErrNoText     == [cls |-> "Error", has503 |-> FALSE, tag |-> "no_text"]
\* new Error("... Failed after N attempts."), lines 108-110
ErrExhausted  == [cls |-> "Error", has503 |-> FALSE,
                  tag |-> "failed_after_attempts"]
NoError       == [cls |-> "none", has503 |-> FALSE, tag |-> "none"]

\* A structured-output parse error or an upstream overload (503) signal.
TransientErrors == {ErrSyntax, ErrOverloaded}
\* Every other error an operation can throw.
OtherErrors == {ErrGoogleOther, ErrPlain503, ErrNetwork, ErrNoText}

\* What one call of operation() does: ok with a value, or an error.
\* The value tells which call produced it and whether its response fits
\* the caller's schema.
NoValue == [request |-> 0, shape_ok |-> FALSE]
Returns(v) == [ok |-> TRUE, val |-> v, err |-> NoError]
Throws(e) == [ok |-> FALSE, val |-> NoValue, err |-> e]
NoOutcome == [ok |-> FALSE, val |-> NoValue, err |-> NoError]

\* Mutant: every error is retried.
IsRetryableAlways(error) == TRUE

\* Mutant: only an overload is retried.
IsRetryableOverloadedOnly(error) ==
    error.cls = "GoogleGenerativeAIError" /\ error.has503

\* Lines 84-89: is_json_error || is_overloaded_error.
IsRetryable(error) ==
    LET is_json_error == error.cls = "SyntaxError"
        is_google_error == error.cls = "GoogleGenerativeAIError"
        is_overloaded_error == is_google_error /\ error.has503
    IN  is_json_error \/ is_overloaded_error

\* Mutant: the loop gives up one attempt early.
IsLastAttemptEarly(a, config) == a + 1 >= config.maxAttempts

\* Mutant: the break of lines 93-95 is missing.
IsLastAttemptNever(a, config) == FALSE

\* Line 93: attempt === config.maxAttempts.
IsLastAttempt(a, config) == a = config.maxAttempts

\* Line 97: delay = Math.min(delay * 2, config.maxDelay).
NextDelay(d, config) == Min(d * 2, config.maxDelay)

\* Lines 78-80: the locals are set and the loop is entered, or with no
\* attempt to make the loop is skipped and line 108 throws.
RetryStart(config) ==
    /\ retry_cfg' = config
    /\ delay' = config.initialDelay
    /\ attempt' = 1
    /\ sleeps' = <<>>
    /\ op_calls' = 0
    /\ retry_val' = NoValue
    /\ last_outcome' = NoOutcome
    /\ IF 1 <= config.maxAttempts
       THEN retry_pc' = "attempt" /\ retry_err' = NoError
       ELSE retry_pc' = "threw" /\ retry_err' = ErrExhausted

\* Lines 81-105: one turn of the loop body, given what operation() did.
RetryOnOutcome(o) ==
    /\ retry_pc = "attempt"
    /\ op_calls' = op_calls + 1
    /\ last_outcome' = o
    /\ UNCHANGED <<retry_cfg, attempt>>
    /\ IF o.ok
       THEN \* line 82: return await operation()
            /\ retry_pc' = "returned"
            /\ retry_val' = o.val
            /\ UNCHANGED <<retry_err, delay, sleeps>>
       ELSE IF ~IsRetryable(o.err)
       THEN \* line 90: throw error
            /\ retry_pc' = "threw"
            /\ retry_err' = o.err
            /\ UNCHANGED <<retry_val, delay, sleeps>>
       ELSE IF IsLastAttempt(attempt, retry_cfg)
       THEN \* line 94: break, then lines 108-110
            /\ retry_pc' = "threw"
            /\ retry_err' = ErrExhausted
            /\ UNCHANGED <<retry_val, delay, sleeps>>
       ELSE \* lines 97-104: the delay is doubled, then slept
            /\ delay' = NextDelay(delay, retry_cfg)
            /\ sleeps' = Append(sleeps, delay')
            /\ retry_pc' = "sleeping"
            /\ UNCHANGED <<retry_val, retry_err>>

\* The timer of line 104 fires; the loop steps (attempt++) and tests its
\* condition (line 80).
RetrySleepDone ==
    /\ retry_pc = "sleeping"
    /\ attempt' = attempt + 1
    /\ IF attempt + 1 <= retry_cfg.maxAttempts
       THEN retry_pc' = "attempt" /\ UNCHANGED retry_err
       ELSE retry_pc' = "threw" /\ retry_err' = ErrExhausted
    /\ UNCHANGED <<retry_cfg, delay, sleeps, op_calls, retry_val, last_outcome>>

(***************************************************************************)
(* A direct call of retryWithExponentialBackoff with an operation that     *)
(* fails transiently plan_failures times in a row and then succeeds,       *)
(* unless its call number plan_fatal_at throws another error.              *)
(***************************************************************************)
\* What call number n of the planned operation can do.
PlannedOutcomes(n) ==
    IF plan_fatal_at = n THEN {Throws(e) : e \in OtherErrors}
    ELSE IF n <= plan_failures THEN {Throws(e) : e \in TransientErrors}
    ELSE {Returns([request |-> n, shape_ok |-> TRUE])}

RetryCall ==
    /\ retry_pc = "idle"
    /\ an_pc = "idle"
    /\ \E config \in RetryConfigs : RetryStart(config)
    /\ UNCHANGED <<recVars, planVars, pureVars, anVars,
                 mainVars, crawlVars, scrollVars>>

RetryAttempt ==
    /\ an_pc = "idle"
    /\ \E o \in PlannedOutcomes(op_calls + 1) : RetryOnOutcome(o)
    /\ UNCHANGED <<recVars, planVars, pureVars, anVars,
                 mainVars, crawlVars, scrollVars>>

RetrySleep ==
    /\ RetrySleepDone
    /\ UNCHANGED <<recVars, planVars, pureVars, anVars,
                 mainVars, crawlVars, scrollVars>>

RetryNext == RetryCall \/ RetryAttempt \/ RetrySleep

(***************************************************************************)
(* MediaAnalysisService.analyze over promptWithImage / promptWithVideo.    *)
(* Two versions of the service are in the repository: part_004 validates   *)
(* with schema.parse, which throws on a mismatch, and part_003 with        *)
(* schema.safeParse, which reports it in parsed.success.                   *)
(***************************************************************************)
\* const maxRetries = 3, part_004:53 and part_003:52
MaxAppRetries == 3

Variants == {"parse", "safeParse"}

\* ANALYSES, src/src/analysis/schemas.ts:52-76: the media type of each name.
AnalysisNames == {"test", "test_video"}
AnalysisType(name) == IF name = "test" THEN "image" ELSE "video"

\* The inputs of analyze; only part_003 reads analysis_name.
AnalyzeInputs ==
    [type : {"image", "video"},
     analysis_name : AnalysisNames \cup {"unknown"}]

\* part_003:83-85 and 89-91; ZodError is what schema.parse throws.
ErrMismatch == [cls |-> "Error", has503 |-> FALSE, tag |-> "type_mismatch"]
ErrNotFound == [cls |-> "Error", has503 |-> FALSE, tag |-> "not_found"]
ErrZod      == [cls |-> "ZodError", has503 |-> FALSE, tag |-> "validation"]

\* What model.generateContent can answer one request with: a rejection
\* (the first four), a candidate without text, text that is no JSON, JSON.
ModelResponses ==
    {"overloaded", "google_other", "plain_503", "network", "no_text",
     "malformed_json", "json"}

\* The operation promptWithVideo hands to the retry layer, lines 200-234
\* (promptWithImage: lines 154-188), with json_mode = true as analyze
\* passes it: request number n answered by resp.
PromptOperation(resp, n, shape_ok) ==
    CASE resp = "overloaded"     -> Throws(ErrOverloaded)
      [] resp = "google_other"   -> Throws(ErrGoogleOther)
      [] resp = "plain_503"      -> Throws(ErrPlain503)
      [] resp = "network"        -> Throws(ErrNetwork)
      [] resp = "no_text"        -> Throws(ErrNoText)
      [] resp = "malformed_json" -> Throws(ErrSyntax)
      [] resp = "json"           -> Returns([request |-> n,
                                             shape_ok |-> shape_ok])

NoResult == [completion_null |-> TRUE, parsed_ok |-> FALSE, request |-> 0,
             attempt |-> 0]

\* Mutant: one retry too many.
ShouldRetryOffByOne(parsed_ok, rc) == ~parsed_ok /\ rc <= MaxAppRetries

\* part_004:77 (!result.parsed && retryCount < maxRetries) and
\* part_003:70 (!result.parsed.success && retryCount < maxRetries).
ShouldRetry(parsed_ok, rc) == ~parsed_ok /\ rc < MaxAppRetries

\* The rest of one analyze attempt once the prompt call has returned
\* `completion` (null, or a value of the retry layer): validation, then
\* the retry decision.  The schemas in use are z.object schemas, so what
\* schema.parse returns is an object, which is truthy.
AnalyzeValidate(is_null, val) ==
    LET valid == ~is_null /\ val.shape_ok
        result == [completion_null |-> is_null, parsed_ok |-> valid,
                   request |-> val.request, attempt |-> retryCount + 1]
    IN  IF an_variant = "parse" /\ ~valid
        THEN \* part_004:24, 44: schema.parse throws out of analyze
             /\ an_pc' = "threw"
             /\ an_err' = ErrZod
             /\ UNCHANGED <<retryCount, an_result>>
        ELSE IF ShouldRetry(valid, retryCount)
        THEN \* part_004:78, part_003:71: the recursive call
             /\ an_pc' = "dispatch"
             /\ retryCount' = retryCount + 1
             /\ UNCHANGED <<an_result, an_err>>
        ELSE \* part_004:81, part_003:74: return result
             /\ an_pc' = "returned"
             /\ an_result' = result
             /\ UNCHANGED <<retryCount, an_err>>

\* analyze is called.  part_003:77-98 looks the analysis up first and
\* throws on a media type mismatch; part_004:48-53 has nothing to look up.
AnalyzeCall ==
    /\ an_pc = "idle"
    /\ retry_pc = "idle"
    /\ LET known == an_input.analysis_name \in AnalysisNames
           type_is_mismatched ==
               ~known \/ an_input.type # AnalysisType(an_input.analysis_name)
       IN  IF an_variant = "safeParse" /\ type_is_mismatched
           THEN an_pc' = "threw" /\ an_err' = ErrMismatch
           ELSE IF an_variant = "safeParse" /\ ~known
           THEN an_pc' = "threw" /\ an_err' = ErrNotFound
           ELSE an_pc' = "dispatch" /\ UNCHANGED an_err
    /\ retryCount' = 0
    /\ UNCHANGED <<an_variant, an_input, prompt_calls, model_requests,
                   an_result, no_text_at, null_completions, plan_invalid>>
    /\ UNCHANGED <<recVars, retryVars, planVars, pureVars,
                 mainVars, crawlVars, scrollVars>>

\* The switch of part_004:56-75 (part_003:55-68) calls analyzeImage or
\* analyzeVideo, which calls promptWithImage or promptWithVideo.
\* promptWithImage returns null when the file manager yields no buffer
\* (lines 145-150); otherwise the prompt enters the retry layer with the
\* default config (lines 154, 200).
AnalyzeDispatch ==
    /\ an_pc = "dispatch"
    /\ prompt_calls' = prompt_calls + 1
    /\ \E has_buffer \in BOOLEAN :
          IF an_input.type = "image" /\ ~has_buffer
          THEN /\ null_completions' = null_completions + 1
               /\ AnalyzeValidate(TRUE, NoValue)
               /\ UNCHANGED retryVars
          ELSE /\ RetryStart(DefaultRetryConfig)
               /\ an_pc' = "prompting"
               /\ UNCHANGED <<retryCount, an_result, an_err, null_completions>>
    /\ UNCHANGED <<an_variant, an_input, model_requests, no_text_at,
                   plan_invalid>>
    /\ UNCHANGED <<recVars, planVars, pureVars,
                 mainVars, crawlVars, scrollVars>>

\* One model request inside the retry layer; when that ends the retry
\* loop, the prompt call returns or throws into analyze in the same step.
PromptRequest ==
    /\ an_pc = "prompting"
    /\ model_requests' = model_requests + 1
    /\ \E resp \in ModelResponses :
          /\ RetryOnOutcome(PromptOperation(resp, model_requests + 1,
                                            retryCount + 1 > plan_invalid))
          /\ no_text_at' = IF resp = "no_text" /\ no_text_at = 0
                           THEN model_requests + 1 ELSE no_text_at
    /\ CASE retry_pc' = "returned" -> AnalyzeValidate(FALSE, retry_val')
         [] retry_pc' = "threw" ->
                /\ an_pc' = "threw"
                /\ an_err' = retry_err'
                /\ UNCHANGED <<retryCount, an_result>>
         [] OTHER -> UNCHANGED <<an_pc, an_err, retryCount, an_result>>
    /\ UNCHANGED <<an_variant, an_input, prompt_calls, null_completions,
                   plan_invalid>>
    /\ UNCHANGED <<recVars, planVars, pureVars,
                 mainVars, crawlVars, scrollVars>>

PromptSleep ==
    /\ an_pc = "prompting"
    /\ RetrySleepDone
    /\ IF retry_pc' = "threw"
       THEN an_pc' = "threw" /\ an_err' = retry_err'
       ELSE UNCHANGED <<an_pc, an_err>>
    /\ UNCHANGED <<an_variant, an_input, retryCount, prompt_calls,
                   model_requests, an_result, no_text_at, null_completions,
                   plan_invalid>>
    /\ UNCHANGED <<recVars, planVars, pureVars,
                 mainVars, crawlVars, scrollVars>>

AnalyzeNext == AnalyzeCall \/ AnalyzeDispatch \/ PromptRequest \/ PromptSleep

(***************************************************************************)
(* InstagramCrawler: crawl, crawlProfile, crawlReels (src/unnamed/part_006)*)
(* under main (src/src/index.ts) with initializeServices and cleanup       *)
(* (src/src/utils/service-initializer.ts).                                 *)
(*                                                                         *)
(* Each method is a program: the sequence of its awaited steps, each with  *)
(* the line of the statement.  A frame holds the method, the index of its  *)
(* current step and its locals; `stack` is the chain of calls, the running *)
(* frame last.  Every awaited step may reject; no method of the crawler    *)
(* has a try statement, so a rejection leaves every frame at once.         *)
(***************************************************************************)
Usernames == {"a", "b"}

\* runConfig.startingUsername, index.ts:15
StartingUsername == "a"

\* the names of the mention links, each with an "@" (part_006:255)
MentionTexts == {"@a", " @b "}

\* mention_text.replace("@", "").trim(), part_006:265
MentionUsername(mention_text) ==
    CASE mention_text = "@a" -> "a"
      [] mention_text = " @b " -> "b"

\* The username of the analysis result, schemas.ts:4 with part_006:101-114:
\* the model reads it off the screenshot of the profile that the crawler
\* opened by `username`, and returns that handle or another string.  The
\* starting profile is taken as read correctly; a mentioned one is read
\* either way.
MisreadHandle == "?"
ParsedUsernames(username) ==
    IF username = StartingUsername THEN {username}
    ELSE {username, MisreadHandle}

\* the sequences of at most n mention links
SeqsUpTo(n) == UNION {[1..k -> MentionTexts] : k \in 0..n}

\* range: { min: number; max: number } = { min: 18, max: 24 }, part_006:143
DefaultMinReels == 18
DefaultMaxReels == 24
DefaultRange == [min |-> DefaultMinReels, max |-> DefaultMaxReels]

\* the range of the calls that are followed to their end
ReelRange == [min |-> MinReels, max |-> MaxReels]

\* the limit as if the range had one value more
DrawnLimitBeyond(k, range) ==
    RandomOf(k, range.max - range.min + 2) + range.min

\* Math.floor(Math.random() * (max - min + 1)) + min, part_006:146
DrawnLimit(k, range) == RandomOf(k, range.max - range.min + 1) + range.min

\* A number of the code: an integer or NaN.
Num(n) == [nan |-> FALSE, n |-> n]
NaN == [nan |-> TRUE, n |-> 0]

Digits == {"0", "1", "2", "3", "4", "5", "6", "7", "8", "9"}
DigitValue(c) ==
    CASE c = "0" -> 0 [] c = "1" -> 1 [] c = "2" -> 2 [] c = "3" -> 3
      [] c = "4" -> 4 [] c = "5" -> 5 [] c = "6" -> 6 [] c = "7" -> 7
      [] c = "8" -> 8 [] c = "9" -> 9

\* What comments_name.split(" ")[0] may be, as the sequence of its
\* characters: empty, a count, a count with a separator, no count.
CounterTokens ==
    {<<>>, <<"4", "7">>, <<"2", "0", "0">>, <<"1", ",", "2">>, <<"c">>}

\* the number of leading digits of a string
LeadingDigits(s) ==
    CHOOSE p \in 0..Len(s) :
       /\ \A j \in 1..p : s[j] \in Digits
       /\ p < Len(s) => s[p + 1] \notin Digits

RECURSIVE DigitsValue(_, _)
DigitsValue(s, p) ==
    IF p = 0 THEN 0 ELSE DigitsValue(s, p - 1) * 10 + DigitValue(s[p])

\* parseInt(s, 10) of a string without sign or leading blanks: the value
\* of the leading digits, NaN when there is none
ParseInt(s) ==
    IF LeadingDigits(s) = 0 THEN NaN ELSE Num(DigitsValue(s, LeadingDigits(s)))

\* parseInt(comments_name.split(" ")[0] || "0", 10), part_006:199
ParseCounter(token) == ParseInt(IF token = <<>> THEN <<"0">> ELSE token)

\* Math.min(Math.floor(comment_count / 10), 8), part_006:302
ScrollsFor(comment_count) ==
    IF comment_count.nan THEN NaN ELSE Num(Min(comment_count.n \div 10, 8))

\* const randomized_scrolls = 1, part_006:307
RandomizedScrolls == 1

\* the loop of the scrolls as if it ran up to the computed bound
ScrollLoopContinuesToBound(scroll, scrolls) ==
    ~scrolls.nan /\ scroll < scrolls.n

\* scroll < randomized_scrolls, part_006:314
ScrollLoopContinues(scroll, scrolls) == scroll < RandomizedScrolls

Step(kind, line) == [kind |-> kind, line |-> line]

\* crawl, part_006:37-82
CrawlProgram ==
    << Step("pause", 42), Step("find", 43), Step("tap", 48),
       Step("pause", 49), Step("find", 51), Step("tap", 58),
       Step("pause", 59), Step("find", 63), Step("tap", 74),
       Step("pause", 77), Step("call_profile", 81), Step("return", 82) >>

\* crawlProfile, part_006:84-139
ProfileProgram ==
    << Step("screenshot", 97), Step("analyze", 101),
       Step("upsert_profile", 114), Step("branch_reels", 116),
       Step("find", 124), Step("tap", 131), Step("pause", 133),
       Step("call_reels", 136), Step("return", 139) >>

\* The upload of the recording and what follows it, part_006:332-344,
\* with the order changed: the URI is tested before the file is unlinked.
UploadStepsCheckFirst ==
    << Step("upload", 332), Step("check_uri", 340), Step("unlink", 338) >>

\* The upload of the recording and what follows it, part_006:332-344.
UploadSteps ==
    << Step("upload", 332), Step("unlink", 338), Step("check_uri", 340) >>

\* crawlReels, part_006:141-410.  The for-await of lines 219-235 reads the
\* caption texts and is one step here.
ReelsProgram ==
    << Step("draw_limit", 146), Step("find", 153), Step("tap", 164),
       Step("reel_test", 168),
       Step("pause", 175), Step("issue_reads", 177),
       Step("join_reads", 190), Step("pause", 206),
       Step("tap", 209), Step("read", 219), Step("pause", 241),
       Step("swipe", 244), Step("pause", 252),
       Step("mentions_query", 254),
       Step("mention_test", 263), Step("mention_name", 264),
       Step("tap", 271), Step("call_profile", 273), Step("find", 276),
       Step("tap", 280), Step("mention_next", 263),
       Step("pause", 285), Step("tap", 287), Step("find", 294),
       Step("tap", 298), Step("compute_scrolls", 302),
       Step("start_recording", 312),
       Step("scroll_test", 314), Step("swipe", 318), Step("pause", 325),
       Step("scroll_next", 314),
       Step("save_recording", 329) >>
    \o UploadSteps \o
    << Step("analyze", 347), Step("upsert_reel", 373),
       Step("find", 379), Step("swipe", 383), Step("pause", 395),
       Step("swipe", 397), Step("reel_next", 168),
       Step("return", 410) >>

Prog(fn) ==
    CASE fn = "crawl" -> CrawlProgram
      [] fn = "crawlProfile" -> ProfileProgram
      [] fn = "crawlReels" -> ReelsProgram

\* the index of the step of a kind that occurs once in the program
Pos(fn, kind) == CHOOSE n \in 1..Len(Prog(fn)) : Prog(fn)[n].kind = kind

\* one driver or gesture call each
DeviceKinds == {"pause", "find", "tap", "swipe", "read"}

NoFile == [kind |-> "none", n |-> 0]
File(kind, n) == [kind |-> kind, n |-> n]

NoFailure == [err |-> "none", fn |-> "none", line |-> 0, reel |-> 0]

\* The locals of one iteration of the reel loop, part_006:168-409.
NoReelData == [collaborator_usernames |-> <<>>, mentioned_usernames |-> <<>>]

\* The locals of one iteration of the reel loop, part_006:168-409, with
\* the gestures issued while the screen is recorded and what was handed
\* to upsertReelWithComments.
ReelLocals ==
    [comment_count |-> Num(0), mentions |-> <<>>, m |-> 0,
     mentioned_usernames |-> <<>>, scrolls |-> Num(0), scroll |-> 0,
     recorded_swipes |-> 0, recorded_pauses |-> 0,
     recording_path |-> NoFile, recording_uri |-> "unset",
     analyzed |-> FALSE, persisted |-> FALSE, reel_data |-> NoReelData,
     links_skipped |-> {}]

\* A call: its locals, with the draws of the limit and the calls of
\* upsertReelWithComments it made.
NewFrame(fn, username, crawl_reels) ==
    [fn |-> fn, pc |-> 1, username |-> username, crawl_reels |-> crawl_reels,
     parsed_username |-> "unset",
     limit |-> 0, draws |-> 0, i |-> 0, upserts |-> 0, reel |-> ReelLocals]

Top == stack[Len(stack)]
Cur == Prog(Top.fn)[Top.pc]
SetTop(f) == [stack EXCEPT ![Len(stack)] = f]
Advance(f) == [f EXCEPT !.pc = @ + 1]
Goto(f, n) == [f EXCEPT !.pc = n]

\* the crawler is at a step of this kind
At(kinds) ==
    /\ main_pc = "crawl"
    /\ crawl_status = "running"
    /\ stack # <<>>
    /\ Cur.kind \in kinds

\* A throw that no frame catches, as if the rejected step were ignored.
RaiseSwallowed(e) == [status |-> "running", err |-> "none"]

\* A throw inside crawl: none of crawl, crawlProfile, crawlReels has a try
\* statement (part_006:37-410), so the promise of crawl rejects with e.
Raise(e) == [status |-> "threw", err |-> e]

\* the step at hand failed: the first failure is kept
Failed(e) ==
    failure' = IF failure = NoFailure
               THEN [err |-> e, fn |-> Top.fn, line |-> Cur.line,
                     reel |-> Top.i]
               ELSE failure

\* ---- main, index.ts:4-26 ------------------------------------------------

\* initializeServices up to its first await, service-initializer.ts:48-68:
\* the PrismaClient is constructed, the credentials are requested.
InitializeServices ==
    /\ main_pc = "start"
    /\ main_pc' = "await_credentials"
    /\ prisma_handle' = "open"
    /\ UNCHANGED <<services, main_logged, driver_session, cleanup_runs,
                   delete_session_calls, disconnect_calls>>
    /\ UNCHANGED <<recVars, retryVars, planVars, pureVars, anVars, crawlVars,
                   scrollVars>>

\* googleAuth.getCredentials() settles, service-initializer.ts:68-72; then
\* remote() is called, line 87.  A rejection or a falsy value ends
\* initializeServices with an error, which main catches, index.ts:16.
CredentialsSettle ==
    /\ main_pc = "await_credentials"
    /\ \E outcome \in {"ok", "rejected", "falsy"} :
          IF outcome = "ok"
          THEN /\ main_pc' = "await_remote"
               /\ UNCHANGED main_logged
          ELSE /\ main_pc' = "finally"
               /\ main_logged' = "credentials"
    /\ UNCHANGED <<services, prisma_handle, driver_session, cleanup_runs,
                   delete_session_calls, disconnect_calls>>
    /\ UNCHANGED <<recVars, retryVars, planVars, pureVars, anVars, crawlVars,
                   scrollVars>>

\* remote() settles, service-initializer.ts:87-113: with a session the
\* container is returned and assigned, index.ts:8, and crawl is called,
\* index.ts:15.
RemoteSettle ==
    /\ main_pc = "await_remote"
    /\ \E ok \in BOOLEAN :
          IF ok
          THEN /\ main_pc' = "crawl"
               /\ driver_session' = "open"
               /\ services' = TRUE
               /\ stack' = <<NewFrame("crawl", StartingUsername, TRUE)>>
               /\ crawl_status' = "running"
               /\ UNCHANGED main_logged
          ELSE /\ main_pc' = "finally"
               /\ main_logged' = "driver"
               /\ UNCHANGED <<driver_session, services, stack, crawl_status>>
    /\ UNCHANGED <<prisma_handle, cleanup_runs, delete_session_calls,
                   disconnect_calls>>
    /\ UNCHANGED <<crawl_err, failure, device_actions, analysis_calls,
                   db_profiles, db_reels, db_accounts, fs_files, files_made, pending_reads>>
    /\ UNCHANGED <<recVars, retryVars, planVars, pureVars, anVars, scrollVars>>

\* The promise of crawl settles, index.ts:15-17: a rejection is caught and
\* logged.
CrawlSettles ==
    /\ main_pc = "crawl"
    /\ crawl_status \in {"returned", "threw"}
    /\ main_pc' = "finally"
    /\ main_logged' = IF crawl_status = "threw" THEN crawl_err ELSE "none"
    /\ UNCHANGED <<services, prisma_handle, driver_session, cleanup_runs,
                   delete_session_calls, disconnect_calls>>
    /\ UNCHANGED <<recVars, retryVars, planVars, pureVars, anVars, crawlVars,
                   scrollVars>>

\* cleanup called only when the try block ended without an error
RunsCleanupOnSuccess(assigned, logged) == assigned /\ logged = "none"

\* if (services), index.ts:19, inside finally
RunsCleanup(assigned, logged) == assigned

\* finally, index.ts:18-23; cleanup runs up to its first await,
\* service-initializer.ts:121.
Finally ==
    /\ main_pc = "finally"
    /\ IF RunsCleanup(services, main_logged)
       THEN /\ cleanup_runs' = cleanup_runs + 1
            /\ delete_session_calls' = delete_session_calls + 1
            /\ main_pc' = "await_delete_session"
       ELSE /\ main_pc' = "exited"
            /\ UNCHANGED <<cleanup_runs, delete_session_calls>>
    /\ UNCHANGED <<services, main_logged, prisma_handle, driver_session,
                   disconnect_calls>>
    /\ UNCHANGED <<recVars, retryVars, planVars, pureVars, anVars, crawlVars,
                   scrollVars>>

\* deleteSession settles, service-initializer.ts:120-127: a rejection is
\* caught and logged; then $disconnect is called.
DeleteSessionSettles ==
    /\ main_pc = "await_delete_session"
    /\ \E ok \in BOOLEAN :
          driver_session' = IF ok THEN "closed" ELSE "close_failed"
    /\ disconnect_calls' = disconnect_calls + 1
    /\ main_pc' = "await_disconnect"
    /\ UNCHANGED <<services, main_logged, prisma_handle, cleanup_runs,
                   delete_session_calls>>
    /\ UNCHANGED <<recVars, retryVars, planVars, pureVars, anVars, crawlVars,
                   scrollVars>>

\* $disconnect settles, service-initializer.ts:126-131: a rejection is
\* caught and logged; cleanup and main return.
DisconnectSettles ==
    /\ main_pc = "await_disconnect"
    /\ \E ok \in BOOLEAN :
          prisma_handle' = IF ok THEN "released" ELSE "release_failed"
    /\ main_pc' = "exited"
    /\ UNCHANGED <<services, main_logged, driver_session, cleanup_runs,
                   delete_session_calls, disconnect_calls>>
    /\ UNCHANGED <<recVars, retryVars, planVars, pureVars, anVars, crawlVars,
                   scrollVars>>

\* ---- the steps of the crawler -------------------------------------------

\* the frame is left where the step failed
Throw(f, e) ==
    /\ crawl_status' = Raise(e).status
    /\ crawl_err' = Raise(e).err
    /\ Failed(e)
    /\ stack' = SetTop(f)

Proceed(f) ==
    /\ stack' = SetTop(f)
    /\ UNCHANGED <<crawl_status, crawl_err, failure>>

\* web_driver.pause, $(...).getElement() with its test for a missing
\* element, tapRandomPointInElement, swipeScreen / swipeWithinElement /
\* swipeStartingFromElement, and the caption reads of part_006:219-235.
DeviceAction ==
    /\ At(DeviceKinds)
    /\ device_actions' = device_actions + 1
    /\ LET f == IF ~is_screen_recording THEN Top
                ELSE IF Cur.kind = "swipe"
                THEN [Top EXCEPT !.reel.recorded_swipes = @ + 1]
                ELSE IF Cur.kind = "pause"
                THEN [Top EXCEPT !.reel.recorded_pauses = @ + 1]
                ELSE Top
       IN \E ok \in BOOLEAN :
             IF ok
             THEN Proceed(Advance(f))
             ELSE Throw(f, IF Cur.kind = "find" THEN "not_found"
                                                ELSE "device")
    /\ UNCHANGED <<analysis_calls, db_profiles, db_reels, db_accounts, fs_files,
                   files_made, pending_reads>>
    /\ UNCHANGED <<recVars, retryVars, planVars, pureVars, anVars, mainVars,
                   scrollVars>>

\* crawl_reels as if every call of crawlProfile passed true
CrawlReelsArgAlways(caller) == TRUE

\* The argument crawl_reels of the two calls of crawlProfile: true from
\* crawl (part_006:81), false from the mention loop (part_006:273).
CrawlReelsArg(caller) == caller = "crawl"

\* The argument username of the two calls of crawlProfile.
UsernameArg(f) ==
    IF f.fn = "crawl"
    THEN f.username
    ELSE f.reel.mentioned_usernames[Len(f.reel.mentioned_usernames)]

\* await this.crawlProfile({...}), part_006:81 and 273
CallProfile ==
    /\ At({"call_profile"})
    /\ stack' = Append(stack, NewFrame("crawlProfile", UsernameArg(Top),
                                       CrawlReelsArg(Top.fn)))
    /\ UNCHANGED <<crawl_status, crawl_err, failure, device_actions,
                   analysis_calls, db_profiles, db_reels, db_accounts, fs_files,
                   files_made, pending_reads>>
    /\ UNCHANGED <<recVars, retryVars, planVars, pureVars, anVars, mainVars,
                   scrollVars>>

\* await this.crawlReels(username), part_006:136
CallReels ==
    /\ At({"call_reels"})
    /\ stack' = Append(stack, NewFrame("crawlReels", Top.username, FALSE))
    /\ UNCHANGED <<crawl_status, crawl_err, failure, device_actions,
                   analysis_calls, db_profiles, db_reels, db_accounts, fs_files,
                   files_made, pending_reads>>
    /\ UNCHANGED <<recVars, retryVars, planVars, pureVars, anVars, mainVars,
                   scrollVars>>

\* The end of a method: the caller goes on after its await; the end of
\* crawl resolves its promise.
Return ==
    /\ At({"return"})
    /\ IF Len(stack) = 1
       THEN /\ stack' = <<>>
            /\ crawl_status' = "returned"
       ELSE /\ stack' = [SubSeq(stack, 1, Len(stack) - 1)
                            EXCEPT ![Len(stack) - 1] = Advance(@)]
            /\ UNCHANGED crawl_status
    /\ UNCHANGED <<crawl_err, failure, device_actions, analysis_calls,
                   db_profiles, db_reels, db_accounts, fs_files, files_made, pending_reads>>
    /\ UNCHANGED <<recVars, retryVars, planVars, pureVars, anVars, mainVars,
                   scrollVars>>

\* saveScreenshot, enhanced-actions.service.ts:856-870: the driver takes
\* the screenshot and it is written to a new temporary file.
SaveScreenshot ==
    /\ At({"screenshot"})
    /\ device_actions' = device_actions + 1
    /\ \E outcome \in {"ok", "device", "fs"} :
          IF outcome = "ok"
          THEN /\ Proceed(Advance(Top))
               /\ files_made' = files_made + 1
               /\ fs_files' = fs_files \cup {File("screenshot", files_made + 1)}
          ELSE /\ Throw(Top, outcome)
               /\ UNCHANGED <<fs_files, files_made, pending_reads>>
    /\ UNCHANGED <<analysis_calls, db_profiles, db_reels, db_accounts, pending_reads>>
    /\ UNCHANGED <<recVars, retryVars, planVars, pureVars, anVars, mainVars,
                   scrollVars>>

\* media_analysis_service.analyze, part_006:101-111 and 347-357: it
\* returns a result with the parsed value or throws; the parsed value of
\* a profile holds its username.
Analyze ==
    /\ At({"analyze"})
    /\ analysis_calls' = analysis_calls + 1
    /\ LET f == [Top EXCEPT !.reel.analyzed = TRUE]
       IN \/ \E parsed \in (IF Top.fn = "crawlProfile"
                             THEN ParsedUsernames(Top.username)
                             ELSE {Top.parsed_username}) :
                Proceed(Advance([f EXCEPT !.parsed_username = parsed]))
          \/ Throw(f, "analysis")
    /\ UNCHANGED <<device_actions, db_profiles, db_reels, db_accounts, fs_files,
                   files_made, pending_reads>>
    /\ UNCHANGED <<recVars, retryVars, planVars, pureVars, anVars, mainVars,
                   scrollVars>>

\* account_service.upsertProfile(analysis_result.parsed), part_006:114:
\* the row is keyed by the username of the parsed value (part_008:216-224
\* and 292-296).
UpsertProfile ==
    /\ At({"upsert_profile"})
    /\ \E ok \in BOOLEAN :
          IF ok
          THEN /\ Proceed(Advance(Top))
               /\ db_profiles' = db_profiles \cup {Top.username}
               /\ db_accounts' = db_accounts \cup {Top.parsed_username}
          ELSE /\ Throw(Top, "db")
               /\ UNCHANGED <<db_profiles, db_accounts>>
    /\ UNCHANGED <<device_actions, analysis_calls, db_reels, fs_files,
                   files_made, pending_reads>>
    /\ UNCHANGED <<recVars, retryVars, planVars, pureVars, anVars, mainVars,
                   scrollVars>>

\* if (!crawl_reels) return, part_006:116-121
BranchReels ==
    /\ At({"branch_reels"})
    /\ IF ~Top.crawl_reels
       THEN Proceed(Goto(Top, Pos("crawlProfile", "return")))
       ELSE Proceed(Advance(Top))
    /\ UNCHANGED <<device_actions, analysis_calls, db_profiles, db_reels, db_accounts,
                   fs_files, files_made, pending_reads>>
    /\ UNCHANGED <<recVars, retryVars, planVars, pureVars, anVars, mainVars,
                   scrollVars>>

\* const limit = Math.floor(Math.random() * (max - min + 1)) + min,
\* part_006:145-146, for the range of the call.
DrawLimit ==
    /\ At({"draw_limit"})
    /\ \E k \in Rands :
          Proceed(Advance([Top EXCEPT !.limit = DrawnLimit(k, ReelRange),
                                      !.draws = @ + 1]))
    /\ UNCHANGED <<device_actions, analysis_calls, db_profiles, db_reels, db_accounts,
                   fs_files, files_made, pending_reads>>
    /\ UNCHANGED <<recVars, retryVars, planVars, pureVars, anVars, mainVars,
                   scrollVars>>

\* The tests of the three loops of crawlReels: for (i < limit), line 168,
\* with fresh locals for the iteration; for await (mention of mentions),
\* line 263; for (scroll < randomized_scrolls), line 314.
LoopTest ==
    /\ At({"reel_test", "mention_test", "scroll_test"})
    /\ LET f == Top
           k == Cur.kind
           continues ==
               CASE k = "reel_test" -> f.i < f.limit
                 [] k = "mention_test" -> f.reel.m < Len(f.reel.mentions)
                 [] k = "scroll_test" ->
                      ScrollLoopContinues(f.reel.scroll, f.reel.scrolls)
           after ==
               CASE k = "reel_test" -> Pos(f.fn, "return")
                 [] k = "mention_test" -> Pos(f.fn, "mention_next") + 1
                 [] k = "scroll_test" -> Pos(f.fn, "scroll_next") + 1
           entered ==
               IF k = "reel_test" THEN [f EXCEPT !.reel = ReelLocals] ELSE f
       IN IF continues THEN Proceed(Advance(entered))
                       ELSE Proceed(Goto(f, after))
    /\ UNCHANGED <<device_actions, analysis_calls, db_profiles, db_reels, db_accounts,
                   fs_files, files_made, pending_reads>>
    /\ UNCHANGED <<recVars, retryVars, planVars, pureVars, anVars, mainVars,
                   scrollVars>>

\* The ends of the bodies of the three loops: i++, the next mention,
\* scroll++.
LoopNext ==
    /\ At({"reel_next", "mention_next", "scroll_next"})
    /\ LET f == Top
           k == Cur.kind
       IN CASE k = "reel_next" ->
                 Proceed(Goto([f EXCEPT !.i = @ + 1], Pos(f.fn, "reel_test")))
            [] k = "mention_next" ->
                 Proceed(Goto([f EXCEPT !.reel.m = @ + 1],
                              Pos(f.fn, "mention_test")))
            [] k = "scroll_next" ->
                 Proceed(Goto([f EXCEPT !.reel.scroll = @ + 1],
                              Pos(f.fn, "scroll_test")))
    /\ UNCHANGED <<device_actions, analysis_calls, db_profiles, db_reels, db_accounts,
                   fs_files, files_made, pending_reads>>
    /\ UNCHANGED <<recVars, retryVars, planVars, pureVars, anVars, mainVars,
                   scrollVars>>

\* The reads of the like, comment and share counts and of the caption
\* button, part_006:177-188: the four commands are issued, none awaited.
IssueReads ==
    /\ At({"issue_reads"})
    /\ device_actions' = device_actions + 4
    /\ pending_reads' = 4
    /\ Proceed(Advance(Top))
    /\ UNCHANGED <<analysis_calls, db_profiles, db_reels, db_accounts, fs_files,
                   files_made>>
    /\ UNCHANGED <<recVars, retryVars, planVars, pureVars, anVars, mainVars,
                   scrollVars>>

\* One of the reads settles, part_006:190-196: Promise.all rejects with
\* the first rejection, while the other reads are still in flight; a
\* rejection after that has no effect.
ReadSettles ==
    /\ pending_reads > 0
    /\ pending_reads' = pending_reads - 1
    /\ \E ok \in BOOLEAN :
          IF ~ok /\ At({"join_reads"})
          THEN Throw(Top, "device")
          ELSE UNCHANGED <<stack, crawl_status, crawl_err, failure>>
    /\ UNCHANGED <<device_actions, analysis_calls, db_profiles, db_reels, db_accounts,
                   fs_files, files_made>>
    /\ UNCHANGED <<recVars, retryVars, planVars, pureVars, anVars, mainVars,
                   scrollVars>>

\* Promise.all resolves once the four reads have, part_006:190-200, and
\* the counts are parsed; a name that is null makes split throw.
JoinReads ==
    /\ At({"join_reads"})
    /\ pending_reads = 0
    /\ \/ \E token \in CounterTokens :
             Proceed(Advance([Top EXCEPT
                        !.reel.comment_count = ParseCounter(token)]))
       \/ Throw(Top, "type")
    /\ UNCHANGED <<device_actions, analysis_calls, db_profiles, db_reels, db_accounts,
                   fs_files, files_made, pending_reads>>
    /\ UNCHANGED <<recVars, retryVars, planVars, pureVars, anVars, mainVars,
                   scrollVars>>

\* const scrolls = Math.min(Math.floor(comment_count / 10), 8),
\* part_006:302
ComputeScrolls ==
    /\ At({"compute_scrolls"})
    /\ Proceed(Advance([Top EXCEPT
                  !.reel.scrolls = ScrollsFor(Top.reel.comment_count)]))
    /\ UNCHANGED <<device_actions, analysis_calls, db_profiles, db_reels, db_accounts,
                   fs_files, files_made, pending_reads>>
    /\ UNCHANGED <<recVars, retryVars, planVars, pureVars, anVars, mainVars,
                   scrollVars>>

\* web_driver.$$(...) of part_006:254, resolved when the for-await of line
\* 263 starts: the mention elements the caption shows.
MentionsQuery ==
    /\ At({"mentions_query"})
    /\ device_actions' = device_actions + 1
    /\ \/ \E ms \in SeqsUpTo(MaxMentions) :
             Proceed(Advance([Top EXCEPT !.reel.mentions = ms]))
       \/ Throw(Top, "device")
    /\ UNCHANGED <<analysis_calls, db_profiles, db_reels, db_accounts, fs_files,
                   files_made, pending_reads>>
    /\ UNCHANGED <<recVars, retryVars, planVars, pureVars, anVars, mainVars,
                   scrollVars>>

\* mention.getAttribute("name") and the push, part_006:264-266
MentionName ==
    /\ At({"mention_name"})
    /\ device_actions' = device_actions + 1
    /\ LET f == Top
           name == MentionUsername(f.reel.mentions[f.reel.m + 1])
       IN \E ok \in BOOLEAN :
             IF ok
             THEN Proceed(Advance([f EXCEPT !.reel.mentioned_usernames =
                                                 Append(@, name)]))
             ELSE Throw(f, "device")
    /\ UNCHANGED <<analysis_calls, db_profiles, db_reels, db_accounts, fs_files,
                   files_made, pending_reads>>
    /\ UNCHANGED <<recVars, retryVars, planVars, pureVars, anVars, mainVars,
                   scrollVars>>

\* startScreenRecording awaited by the crawler, part_006:312 and
\* enhanced-actions.service.ts:872-883.
StartRecording ==
    /\ At({"start_recording"})
    /\ IF is_screen_recording
       THEN /\ Proceed(Advance(Top))
            /\ UNCHANGED <<is_screen_recording, driver_starts,
                           device_actions, capture_running>>
       ELSE /\ is_screen_recording' = TRUE
            /\ driver_starts' = driver_starts + 1
            /\ device_actions' = device_actions + 1
            /\ \E ok \in BOOLEAN :
                  /\ capture_running' =
                        DriverAfter("start", ok, capture_running)
                  /\ IF ok THEN Proceed(Advance(Top))
                           ELSE Throw(Top, "device")
    /\ UNCHANGED <<calls, invoked, driver_stops, write_calls>>
    /\ UNCHANGED <<analysis_calls, db_profiles, db_reels, db_accounts, fs_files,
                   files_made, pending_reads>>
    /\ UNCHANGED <<retryVars, planVars, pureVars, anVars, mainVars, scrollVars>>

\* saveScreenRecording awaited by the crawler, part_006:329-330 and
\* enhanced-actions.service.ts:889-928: the driver stops the recording, the
\* raw file is written, ffmpeg writes the re-encoded file, whose path is
\* returned.
SaveRecording ==
    /\ At({"save_recording"})
    /\ IF ~is_screen_recording
       THEN /\ Throw(Top, "not_started")
            /\ UNCHANGED <<is_screen_recording, driver_stops, write_calls,
                           capture_running, device_actions, fs_files,
                           files_made>>
       ELSE /\ is_screen_recording' = FALSE
            /\ driver_stops' = driver_stops + 1
            /\ device_actions' = device_actions + 1
            /\ \E outcome \in {"ok", "device", "fs", "ffmpeg"} :
                  LET n == files_made + 1
                      raw == File("recording", n)
                      reencoded == File("reencoded", n)
                  IN /\ capture_running' =
                           DriverAfter("stop", outcome # "device",
                                       capture_running)
                     /\ write_calls' = IF outcome = "device"
                                       THEN write_calls
                                       ELSE write_calls + 1
                     /\ files_made' = IF outcome \in {"device", "fs"}
                                      THEN files_made
                                      ELSE n
                     /\ fs_files' =
                           CASE outcome = "ok" ->
                                  fs_files \cup {raw, reencoded}
                             [] outcome = "ffmpeg" -> fs_files \cup {raw}
                             [] OTHER -> fs_files
                     /\ IF outcome = "ok"
                        THEN Proceed(Advance([Top EXCEPT
                                 !.reel.recording_path = reencoded]))
                        ELSE Throw(Top, outcome)
    /\ UNCHANGED <<calls, invoked, driver_starts>>
    /\ UNCHANGED <<analysis_calls, db_profiles, db_reels, db_accounts, pending_reads>>
    /\ UNCHANGED <<retryVars, planVars, pureVars, anVars, mainVars, scrollVars>>

\* gcloud_storage_client.uploadLocalFile, part_006:332-335 and
\* part_001:51-66: the URI, or undefined when bucket.upload rejected; it
\* never throws.
UploadLocalFile ==
    /\ At({"upload"})
    /\ \E uri \in {"uri", "undefined"} :
          /\ stack' = SetTop(Advance([Top EXCEPT !.reel.recording_uri = uri]))
          /\ IF uri = "undefined"
             THEN Failed("upload_failed")
             ELSE UNCHANGED failure
    /\ UNCHANGED <<crawl_status, crawl_err, device_actions, analysis_calls,
                   db_profiles, db_reels, db_accounts, fs_files, files_made, pending_reads>>
    /\ UNCHANGED <<recVars, retryVars, planVars, pureVars, anVars, mainVars,
                   scrollVars>>

\* await fs.unlink(recording_path), part_006:338
Unlink ==
    /\ At({"unlink"})
    /\ \E ok \in BOOLEAN :
          IF ok
          THEN /\ Proceed(Advance(Top))
               /\ fs_files' = fs_files \ {Top.reel.recording_path}
          ELSE /\ Throw(Top, "fs")
               /\ UNCHANGED fs_files
    /\ UNCHANGED <<device_actions, analysis_calls, db_profiles, db_reels, db_accounts,
                   files_made, pending_reads>>
    /\ UNCHANGED <<recVars, retryVars, planVars, pureVars, anVars, mainVars,
                   scrollVars>>

\* the test of the URI as if it never failed
UploadFailedNever(uri) == FALSE

\* !recording_uri, part_006:340
UploadFailed(uri) == uri = "undefined"

\* if (!recording_uri) throw new Error("Failed to upload recording to
\* GCloud Storage"), part_006:340-344
CheckUri ==
    /\ At({"check_uri"})
    /\ IF UploadFailed(Top.reel.recording_uri)
       THEN Throw(Top, "upload_failed")
       ELSE Proceed(Advance(Top))
    /\ UNCHANGED <<device_actions, analysis_calls, db_profiles, db_reels, db_accounts,
                   fs_files, files_made, pending_reads>>
    /\ UNCHANGED <<recVars, retryVars, planVars, pureVars, anVars, mainVars,
                   scrollVars>>

\* reel_data as if username were the one declared in the mention loop
ReelDataShadowed(f) ==
    [collaborator_usernames |->
        IF f.reel.mentioned_usernames = <<>>
        THEN <<f.username>>
        ELSE <<f.reel.mentioned_usernames[Len(f.reel.mentioned_usernames)]>>,
     mentioned_usernames |-> f.reel.mentioned_usernames]

\* reel_data, part_006:362-371: the two lists of usernames
ReelData(f) ==
    [collaborator_usernames |-> <<f.username>>,
     mentioned_usernames |-> f.reel.mentioned_usernames]

\* ReelsService.upsertReel, part_009:44-73: a collaborator or a mention
\* whose username findByUsername does not find is skipped with a warning.
SkippedLinks(reel_data, accounts) ==
    ({reel_data.collaborator_usernames[k] :
         k \in DOMAIN reel_data.collaborator_usernames}
     \cup {reel_data.mentioned_usernames[k] :
              k \in DOMAIN reel_data.mentioned_usernames}) \ accounts

\* reels_service.upsertReelWithComments, part_006:362-376
UpsertReel ==
    /\ At({"upsert_reel"})
    /\ LET f == [Top EXCEPT !.reel.persisted = TRUE,
                            !.reel.reel_data = ReelData(Top),
                            !.reel.links_skipped =
                                SkippedLinks(ReelData(Top), db_accounts),
                            !.upserts = @ + 1]
       IN \E ok \in BOOLEAN :
             IF ok
             THEN /\ Proceed(Advance(f))
                  /\ db_reels' = db_reels \cup
                                    {[owner |-> f.username, index |-> f.i]}
             ELSE /\ Throw(f, "db")
                  /\ UNCHANGED db_reels
    /\ UNCHANGED <<device_actions, analysis_calls, db_profiles, db_accounts,
                   fs_files, files_made, pending_reads>>
    /\ UNCHANGED <<recVars, retryVars, planVars, pureVars, anVars, mainVars,
                   scrollVars>>

CrawlNext ==
    \/ InitializeServices
    \/ CredentialsSettle
    \/ RemoteSettle
    \/ DeviceAction
    \/ CallProfile
    \/ CallReels
    \/ Return
    \/ SaveScreenshot
    \/ Analyze
    \/ UpsertProfile
    \/ BranchReels
    \/ DrawLimit
    \/ LoopTest
    \/ LoopNext
    \/ IssueReads
    \/ ReadSettles
    \/ JoinReads
    \/ ComputeScrolls
    \/ MentionsQuery
    \/ MentionName
    \/ StartRecording
    \/ SaveRecording
    \/ UploadLocalFile
    \/ Unlink
    \/ CheckUri
    \/ UpsertReel
    \/ CrawlSettles
    \/ Finally
    \/ DeleteSessionSettles
    \/ DisconnectSettles

(***************************************************************************)
(* EnhancedActionsService: isElementVisible, scrollToElement,              *)
(* ensureElementVisible, tapRandomPointInElement                           *)
(* (src/src/automation/services/enhanced-actions.service.ts:24-184 and     *)
(* 315-362).  One call of scrollToElement or of tapRandomPointInElement is *)
(* followed from its entry to its end; the driver answers every query      *)
(* with any value of its range or with a rejection.                        *)
(***************************************************************************)
\* maxAttempts: number = 5, line 45
DefaultScrollAttempts == 5

\* const padding = 5, line 345
Padding == 5

\* what element.getAttribute("visible") may give
AttrOutcomes == {"true", "false", "TRUE", "error"}

NoGeometry == [x |-> 0, y |-> 0, width |-> 0, height |-> 0]
NoSwipe == [direction |-> "none", length |-> "none"]

ElementSizes == {1, 11}

\* coordinates around the two edges of an extent for an element of a size
Coordinates(size, extent) == {0 - size - 1, 0 - size, 0, extent, extent + 1}

\* location and size as getLocation() and getSize() report them
Geometries ==
    UNION {{[x |-> x, y |-> y, width |-> s, height |-> s] :
               x \in Coordinates(s, WindowWidth),
               y \in Coordinates(s, WindowHeight)} : s \in ElementSizes}

\* the geometry queries resolve with a geometry or one of them rejects
GeometryOutcomes ==
    {[ok |-> TRUE, g |-> g] : g \in Geometries}
        \cup {[ok |-> FALSE, g |-> NoGeometry]}

\* isElementVisible without its catch
IsElementVisibleUncaught(outcome) ==
    [threw |-> outcome = "error", value |-> outcome = "true"]

\* isElementVisible, lines 24-31: the attribute compared with "true"; a
\* rejected query is caught and gives false.
IsElementVisible(outcome) ==
    [threw |-> FALSE, value |-> outcome # "error" /\ outcome = "true"]

\* the loop test with <= in place of <
LoopContinuesInclusive(n, maxAttempts) == n <= maxAttempts

\* while (attempts < maxAttempts), line 51
LoopContinues(n, maxAttempts) == n < maxAttempts

\* the classification with the horizontal tests first
GetElementPositionHorizontalFirst(o) ==
    IF ~o.ok THEN "in-viewport"
    ELSE LET elementBottom == o.g.y + o.g.height
             elementRight == o.g.x + o.g.width
         IN IF elementRight < 0 THEN "left"
            ELSE IF o.g.x > WindowWidth THEN "right"
            ELSE IF elementBottom < 0 THEN "above"
            ELSE IF o.g.y > WindowHeight THEN "below"
            ELSE "in-viewport"

\* getElementPositionRelativeToViewport, lines 96-133: a rejected geometry
\* query is caught and gives "in-viewport".
GetElementPositionRelativeToViewport(o) ==
    IF ~o.ok THEN "in-viewport"
    ELSE LET elementBottom == o.g.y + o.g.height
             elementRight == o.g.x + o.g.width
         IN IF elementBottom < 0 THEN "above"
            ELSE IF o.g.y > WindowHeight THEN "below"
            ELSE IF elementRight < 0 THEN "left"
            ELSE IF o.g.x > WindowWidth THEN "right"
            ELSE "in-viewport"

\* getSwipeDirectionForElement, lines 141-162
GetSwipeDirectionForElement(elementPosition, alignToTop) ==
    CASE elementPosition = "above" -> "down"
      [] elementPosition = "below" -> "up"
      [] elementPosition = "left" -> "right"
      [] elementPosition = "right" -> "left"
      [] OTHER -> IF alignToTop THEN "up" ELSE "down"

\* getOptimalSwipeLength, lines 170-184: the lengths Math.random() may
\* select
GetOptimalSwipeLength(elementPosition) ==
    CASE elementPosition \in {"above", "below"} -> {"medium", "long"}
      [] elementPosition \in {"left", "right"} -> {"short", "medium"}
      [] OTHER -> {"short"}

\* the end of scrollToElement after the loop, as if it threw
ExhaustedOutcomeThrows == "threw"

\* The end of scrollToElement after the loop, lines 86-89: a warning is
\* logged and the method returns.
ExhaustedOutcome == "returned"

\* where the call goes on when scrollToElement has returned: in
\* tapRandomPointInElement at line 342, else back in the caller
AfterScroll(op) == IF op = "tap" THEN "tap_geometry" ELSE "returned"

\* The loop test of line 51, at entry and after attempts++.
ScrollLoop(n, maxAttempts, op) ==
    IF LoopContinues(n, maxAttempts)
    THEN /\ sc_pc' = "check_visible"
         /\ UNCHANGED <<exhausted, sc_err>>
    ELSE /\ exhausted' = TRUE
         /\ IF ExhaustedOutcome = "returned"
            THEN sc_pc' = AfterScroll(op) /\ UNCHANGED sc_err
            ELSE sc_pc' = "threw" /\ sc_err' = "exhausted"

\* the outcome of an isElementVisible call and what it returned
VisibilityQueried(outcome) ==
    /\ last_attr' = outcome
    /\ last_visible' = IsElementVisible(outcome).value

\* scrollToElement(element, alignToTop, maxAttempts) called, lines 42-51
ScrollCall ==
    /\ sc_pc = "idle"
    /\ \E a \in BOOLEAN, n \in 0..MaxScrollAttempts :
          /\ sc_op' = "scroll"
          /\ sc_alignToTop' = a
          /\ sc_maxAttempts' = n
          /\ attempts' = 0
          /\ ScrollLoop(0, n, "scroll")
    /\ UNCHANGED <<elem, position, last_attr, last_visible, swipes,
                   settle_pauses, last_swipe, acted, tap_point>>
    /\ UNCHANGED <<recVars, retryVars, planVars, pureVars, anVars, mainVars,
                   crawlVars>>

\* tapRandomPointInElement(element, ensureVisible) called, lines 333-342:
\* ensureElementVisible queries the visibility, line 319.
TapCall ==
    /\ sc_pc = "idle"
    /\ \E ensureVisible \in BOOLEAN :
          sc_pc' = IF ensureVisible THEN "ensure_visible" ELSE "tap_geometry"
    /\ sc_op' = "tap"
    /\ sc_alignToTop' = TRUE
    /\ sc_maxAttempts' = DefaultScrollAttempts
    /\ UNCHANGED <<attempts, elem, position, last_attr, last_visible, swipes,
                   settle_pauses, last_swipe, sc_err, acted, tap_point, exhausted>>
    /\ UNCHANGED <<recVars, retryVars, planVars, pureVars, anVars, mainVars,
                   crawlVars>>

\* ensureElementVisible, lines 315-324: scrollToElement(element,
\* alignToTop) is called when the element is not visible.
EnsureElementVisible ==
    /\ sc_pc = "ensure_visible"
    /\ \E outcome \in AttrOutcomes :
          /\ VisibilityQueried(outcome)
          /\ IF IsElementVisible(outcome).threw
             THEN /\ sc_pc' = "threw"
                  /\ sc_err' = "visibility"
                  /\ UNCHANGED <<attempts, exhausted>>
             ELSE IF IsElementVisible(outcome).value
             THEN /\ sc_pc' = "tap_geometry"
                  /\ UNCHANGED <<attempts, exhausted, sc_err>>
             ELSE /\ attempts' = 0
                  /\ ScrollLoop(0, sc_maxAttempts, sc_op)
    /\ UNCHANGED <<sc_op, sc_alignToTop, sc_maxAttempts, elem, position,
                   swipes, settle_pauses, last_swipe, acted, tap_point>>
    /\ UNCHANGED <<recVars, retryVars, planVars, pureVars, anVars, mainVars,
                   crawlVars>>

\* The visibility check of an iteration, lines 52-56.
CheckVisible ==
    /\ sc_pc = "check_visible"
    /\ \E outcome \in AttrOutcomes :
          /\ VisibilityQueried(outcome)
          /\ IF IsElementVisible(outcome).threw
             THEN sc_pc' = "threw" /\ sc_err' = "visibility"
             ELSE IF IsElementVisible(outcome).value
             THEN sc_pc' = AfterScroll(sc_op) /\ UNCHANGED sc_err
             ELSE sc_pc' = "classify" /\ UNCHANGED sc_err
    /\ UNCHANGED <<sc_op, sc_alignToTop, sc_maxAttempts, attempts, elem,
                   position, swipes, settle_pauses, last_swipe, acted,
                   tap_point,
                   exhausted>>
    /\ UNCHANGED <<recVars, retryVars, planVars, pureVars, anVars, mainVars,
                   crawlVars>>

\* The classification of an iteration and the swipe it issues, lines
\* 58-78: an element in the viewport ends the call without a swipe.
Classify ==
    /\ sc_pc = "classify"
    /\ \E o \in GeometryOutcomes :
          LET elementPosition == GetElementPositionRelativeToViewport(o)
          IN /\ position' = elementPosition
             /\ elem' = IF o.ok THEN o.g ELSE elem
             /\ IF elementPosition = "in-viewport"
                THEN /\ sc_pc' = AfterScroll(sc_op)
                     /\ UNCHANGED <<swipes, last_swipe>>
                ELSE /\ \E swipeLength \in
                            GetOptimalSwipeLength(elementPosition) :
                           last_swipe' =
                              [direction |-> GetSwipeDirectionForElement(
                                                elementPosition,
                                                sc_alignToTop),
                               length |-> swipeLength]
                     /\ swipes' = swipes + 1
                     /\ sc_pc' = "await_swipe"
    /\ UNCHANGED <<sc_op, sc_alignToTop, sc_maxAttempts, attempts, last_attr,
                   last_visible, settle_pauses, sc_err, acted, tap_point, exhausted>>
    /\ UNCHANGED <<recVars, retryVars, planVars, pureVars, anVars, mainVars,
                   crawlVars>>

\* swipeScreen settles, line 78; the settle pause is issued, line 81.
SwipeSettles ==
    /\ sc_pc = "await_swipe"
    /\ \E ok \in BOOLEAN :
          IF ok
          THEN /\ settle_pauses' = settle_pauses + 1
               /\ sc_pc' = "await_pause"
               /\ UNCHANGED sc_err
          ELSE /\ sc_pc' = "threw"
               /\ sc_err' = "device"
               /\ UNCHANGED settle_pauses
    /\ UNCHANGED <<sc_op, sc_alignToTop, sc_maxAttempts, attempts, elem,
                   position, last_attr, last_visible, swipes, last_swipe,
                   acted, tap_point, exhausted>>
    /\ UNCHANGED <<recVars, retryVars, planVars, pureVars, anVars, mainVars,
                   crawlVars>>

\* The pause settles, lines 81-84: attempts++ and the loop test.
PauseSettles ==
    /\ sc_pc = "await_pause"
    /\ \E ok \in BOOLEAN :
          IF ok
          THEN /\ attempts' = attempts + 1
               /\ ScrollLoop(attempts + 1, sc_maxAttempts, sc_op)
          ELSE /\ sc_pc' = "threw"
               /\ sc_err' = "device"
               /\ UNCHANGED <<attempts, exhausted>>
    /\ UNCHANGED <<sc_op, sc_alignToTop, sc_maxAttempts, elem, position,
                   last_attr, last_visible, swipes, settle_pauses,
                   last_swipe, acted, tap_point>>
    /\ UNCHANGED <<recVars, retryVars, planVars, pureVars, anVars, mainVars,
                   crawlVars>>

\* sizes around the padding of the tap, on the screen
TapGeometries ==
    {[x |-> 3, y |-> 4, width |-> w, height |-> h] :
        w \in {2 * Padding, 2 * Padding + 3}, h \in {2 * Padding, 2 * Padding + 2}}

\* what tapRandomPointInElement reads of the element
TapGeometryOutcomes ==
    GeometryOutcomes \cup {[ok |-> TRUE, g |-> g] : g \in TapGeometries}

\* the coordinate as if the padding were not added
RandomCoordinateUnpadded(origin, usable, k) == origin + RandomOf(k, usable)

\* location + padding + Math.floor(Math.random() * usable), lines 355-358
RandomCoordinate(origin, usable, k) == origin + Padding + RandomOf(k, usable)

\* getSize and getLocation settle and the gesture is issued, lines
\* 342-361: a click when the padded box is empty, else a tap on a random
\* point of the padded box.
TapGeometry ==
    /\ sc_pc = "tap_geometry"
    /\ \E o \in TapGeometryOutcomes :
          IF o.ok
          THEN LET usableWidth == o.g.width - Padding * 2
                   usableHeight == o.g.height - Padding * 2
               IN /\ IF usableWidth <= 0 \/ usableHeight <= 0
                     THEN /\ acted' = "click"
                          /\ tap_point' = NoPoint
                     ELSE /\ acted' = "tap"
                          /\ \E kx \in Rands, ky \in Rands :
                                tap_point' =
                                   [x |-> RandomCoordinate(o.g.x, usableWidth,
                                                           kx),
                                    y |-> RandomCoordinate(o.g.y,
                                                           usableHeight, ky)]
                  /\ elem' = o.g
                  /\ sc_pc' = "await_act"
                  /\ UNCHANGED sc_err
          ELSE /\ sc_pc' = "threw"
               /\ sc_err' = "device"
               /\ UNCHANGED <<acted, tap_point, elem>>
    /\ UNCHANGED <<sc_op, sc_alignToTop, sc_maxAttempts, attempts, position,
                   last_attr, last_visible, swipes, settle_pauses,
                   last_swipe, exhausted>>
    /\ UNCHANGED <<recVars, retryVars, planVars, pureVars, anVars, mainVars,
                   crawlVars>>

\* element.click() or web_driver.tap() settles, lines 351 and 361.
ActSettles ==
    /\ sc_pc = "await_act"
    /\ \E ok \in BOOLEAN :
          IF ok
          THEN sc_pc' = "returned" /\ UNCHANGED sc_err
          ELSE sc_pc' = "threw" /\ sc_err' = "device"
    /\ UNCHANGED <<sc_op, sc_alignToTop, sc_maxAttempts, attempts, elem,
                   position, last_attr, last_visible, swipes, settle_pauses,
                   last_swipe, acted, tap_point, exhausted>>
    /\ UNCHANGED <<recVars, retryVars, planVars, pureVars, anVars, mainVars,
                   crawlVars>>

ScrollNext ==
    \/ ScrollCall
    \/ TapCall
    \/ EnsureElementVisible
    \/ CheckVisible
    \/ Classify
    \/ SwipeSettles
    \/ PauseSettles
    \/ TapGeometry
    \/ ActSettles

(***************************************************************************)
(* EnhancedActionsService: the coordinates of the gestures,                *)
(* tapRandomPointAboveElement, swipeScreen, swipeWithinElement and         *)
(* swipeStartingFromElement                                                *)
(* (src/src/automation/services/enhanced-actions.service.ts:373-854).      *)
(*                                                                         *)
(* The code computes in floating point with Math.random(); here a random   *)
(* number is k / RandomSteps and a length is an integer count of           *)
(* 1 / Unit pixels, a product of a length and a distance multiplier a      *)
(* count of 1 / (Unit * MultiplierDen) pixels, so that every expression of *)
(* the code has its exact value.  Math.round is applied last, as in the    *)
(* code.  One gesture call is computed from its arguments to the driver    *)
(* call it issues.                                                         *)
(***************************************************************************)
Unit == 40 * RandomSteps
MultiplierDen == 20 * RandomSteps
Unit2 == Unit * MultiplierDen

Directions == {"up", "down", "left", "right"}
Lengths == {"short", "medium", "long"}
Handednesses == {"left", "right", "neutral"}

\* the window sizes getWindowSize() reports
Screens ==
    {[width |-> ScreenWidth, height |-> ScreenHeight],
     [width |-> ScreenWidth \div 3, height |-> ScreenHeight \div 3]}

\* Location and size of an element as the driver reports them, for a
\* screen: inside, across each edge of the screen, near its top, too
\* small for a swipe, and small at the left edge.
ElementsOn(screen) ==
    {[x |-> 20, y |-> 60, width |-> 80, height |-> 60],
     [x |-> 0, y |-> 0, width |-> screen.width, height |-> screen.height],
     [x |-> 10, y |-> 12, width |-> 60, height |-> 44],
     [x |-> 30, y |-> 4, width |-> 60, height |-> 44],
     [x |-> 0 - 40, y |-> 80, width |-> 100, height |-> 50],
     [x |-> screen.width - 50, y |-> 80, width |-> 120, height |-> 50],
     [x |-> 0, y |-> screen.height - 30, width |-> screen.width,
      height |-> 83],
     [x |-> 10, y |-> 0 - 70, width |-> 90, height |-> 100],
     [x |-> 40, y |-> 90, width |-> 30, height |-> 30],
     [x |-> 40, y |-> 90, width |-> 20, height |-> 48],
     [x |-> 0, y |-> 90, width |-> 30, height |-> 30]}

NoGesture ==
    [op |-> "none", issued |-> "none", direction |-> "none",
     length |-> "none", handedness |-> "none", verticalOffset |-> 0,
     screen |-> [width |-> 0, height |-> 0], element |-> NoGeometry,
     from |-> NoPoint, to |-> NoPoint]

\* getSwipeDistanceMultiplier, lines 459-468, as a count of
\* 1 / MultiplierDen: 0.2 + r * 0.15, 0.4 + r * 0.2, 0.7 + r * 0.25
GetSwipeDistanceMultiplier(length, k) ==
    CASE length = "short" -> 4 * RandomSteps + 3 * k
      [] length = "medium" -> 8 * RandomSteps + 4 * k
      [] length = "long" -> 14 * RandomSteps + 5 * k

\* getHandedStartPosition, lines 474-510, in 1 / Unit pixels; centerX and
\* centerY in pixels; kx and ky are the random numbers of the x and the y
\* coordinate
GetHandedStartPosition(centerX, centerY, windowWidth, windowHeight, handedness, kx, ky) ==
    LET horizontalBias == windowWidth * 14 * RandomSteps
        verticalVariation == Min(windowHeight * 10 * RandomSteps, 100 * Unit)
        startX ==
            CASE handedness = "right" ->
                   centerX * Unit + horizontalBias + RandomOf(kx, 30 * Unit)
              [] handedness = "left" ->
                   centerX * Unit - horizontalBias - RandomOf(kx, 30 * Unit)
              [] handedness = "neutral" ->
                   centerX * Unit + CenteredOf(kx, 50 * Unit)
        startY == centerY * Unit + CenteredOf(ky, verticalVariation)
    IN [x |-> Max(50 * Unit, Min((windowWidth - 50) * Unit, startX)),
        y |-> Max(50 * Unit, Min((windowHeight - 50) * Unit, startY))]

\* getHandedStartPositionInElement, lines 515-548, in 1 / Unit pixels;
\* centerX2 and centerY2 are twice the centre, in pixels
GetHandedStartPositionInElement(centerX2, centerY2, elementWidth, elementHeight, handedness, kx, ky) ==
    LET halfBias == elementWidth * 7 * RandomSteps
        maxVariation == Min(elementWidth * 4 * RandomSteps, 30 * Unit)
        verticalVariation ==
            Min(elementHeight * 10 * RandomSteps, 100 * Unit)
        centerX == centerX2 * (Unit \div 2)
        centerY == centerY2 * (Unit \div 2)
    IN [x |-> CASE handedness = "right" ->
                     centerX + halfBias + RandomOf(kx, maxVariation)
                [] handedness = "left" ->
                     centerX - halfBias - RandomOf(kx, maxVariation)
                [] handedness = "neutral" ->
                     centerX + CenteredOf(kx, maxVariation),
        y |-> centerY + CenteredOf(ky, verticalVariation)]

\* The end of a swipe that may reach the edges of the screen, lines
\* 580-620 and 800-840, in 1 / Unit2 pixels: start in 1 / Unit pixels, m
\* the distance multiplier, kd the random number of the drift.
ScreenSwipeEnd(start, direction, m, kd, screen) ==
    LET sx == start.x * MultiplierDen
        sy == start.y * MultiplierDen
        drift == CenteredOf(kd, 40 * Unit) * MultiplierDen
        endX == CASE direction \in {"up", "down"} -> sx + drift
                  [] direction = "left" ->
                       sx - (start.x - 10 * Unit) * m
                  [] direction = "right" ->
                       sx + ((screen.width - 10) * Unit - start.x) * m
        endY == CASE direction = "up" ->
                       sy - (start.y - 10 * Unit) * m
                  [] direction = "down" ->
                       sy + ((screen.height - 10) * Unit - start.y) * m
                  [] direction \in {"left", "right"} -> sy + drift
    IN [x |-> Max(10 * Unit2, Min((screen.width - 10) * Unit2, endX)),
        y |-> Max(10 * Unit2, Min((screen.height - 10) * Unit2, endY))]

\* the driver call of a swipe: Math.round of both points, lines 622-626,
\* 730-734 and 846-853
DriverSwipe(g, start, end) ==
    [g EXCEPT !.issued = "swipe",
              !.from = [x |-> Round(start.x, Unit), y |-> Round(start.y, Unit)],
              !.to = [x |-> Round(end.x, Unit2), y |-> Round(end.y, Unit2)]]

\* swipeScreen, lines 558-627
SwipeScreenGesture(direction, length, handedness, screen, kx, ky, km, kd) ==
    LET start == GetHandedStartPosition(screen.width \div 2,
                                        screen.height \div 2, screen.width,
                                        screen.height, handedness, kx, ky)
        m == GetSwipeDistanceMultiplier(length, km)
        g == [NoGesture EXCEPT !.op = "swipeScreen",
                               !.direction = direction, !.length = length,
                               !.handedness = handedness, !.screen = screen]
    IN DriverSwipe(g, start, ScreenSwipeEnd(start, direction, m, kd, screen))

\* swipeWithinElement after ensureElementVisible, lines 653-735
SwipeWithinElementGesture(e, direction, length, handedness, screen, kx, ky, km, kd) ==
    LET padding == 10
        usableWidth == e.width - padding * 2
        usableHeight == e.height - padding * 2
        start == GetHandedStartPositionInElement(2 * e.x + e.width,
                                                 2 * e.y + e.height, e.width,
                                                 e.height, handedness, kx, ky)
        m == GetSwipeDistanceMultiplier(length, km)
        sx == start.x * MultiplierDen
        sy == start.y * MultiplierDen
        driftX == CenteredOf(kd, Min(usableWidth * 4 * RandomSteps,
                                     20 * Unit)) * MultiplierDen
        driftY == CenteredOf(kd, Min(usableHeight * 4 * RandomSteps,
                                     20 * Unit)) * MultiplierDen
        endX == CASE direction \in {"up", "down"} -> sx + driftX
                  [] direction = "left" ->
                       sx - (start.x - (e.x + padding) * Unit) * m
                  [] direction = "right" ->
                       sx + ((e.x + e.width - padding) * Unit - start.x) * m
        endY == CASE direction = "up" ->
                       sy - (start.y - (e.y + padding) * Unit) * m
                  [] direction = "down" ->
                       sy + ((e.y + e.height - padding) * Unit - start.y) * m
                  [] direction \in {"left", "right"} -> sy + driftY
        end == [x |-> Max((e.x + padding) * Unit2,
                          Min((e.x + e.width - padding) * Unit2, endX)),
                y |-> Max((e.y + padding) * Unit2,
                          Min((e.y + e.height - padding) * Unit2, endY))]
        g == [NoGesture EXCEPT !.op = "swipeWithinElement",
                               !.direction = direction, !.length = length,
                               !.handedness = handedness, !.screen = screen,
                               !.element = e]
    IN IF usableWidth <= 20 \/ usableHeight <= 20
       THEN g
       ELSE DriverSwipe(g, start, end)

\* swipeStartingFromElement after ensureElementVisible, lines 762-854
SwipeStartingFromElementGesture(e, direction, length, handedness, screen, kx, ky, km, kd) ==
    LET padding == 5
        usableWidth == e.width - padding * 2
        usableHeight == e.height - padding * 2
        start == GetHandedStartPositionInElement(2 * e.x + e.width,
                                                 2 * e.y + e.height, e.width,
                                                 e.height, handedness, kx, ky)
        constrained ==
            [x |-> Max((e.x + padding) * Unit,
                       Min((e.x + e.width - padding) * Unit, start.x)),
             y |-> Max((e.y + padding) * Unit,
                       Min((e.y + e.height - padding) * Unit, start.y))]
        m == GetSwipeDistanceMultiplier(length, km)
        g == [NoGesture EXCEPT !.op = "swipeStartingFromElement",
                               !.direction = direction, !.length = length,
                               !.handedness = handedness, !.screen = screen,
                               !.element = e]
    IN IF usableWidth <= 10 \/ usableHeight <= 10
       THEN g
       ELSE DriverSwipe(g, constrained,
                        ScreenSwipeEnd(constrained, direction, m, kd, screen))

\* verticalOffset: number = 50, line 376
DefaultVerticalOffset == 50

\* the default and no offset
VerticalOffsets == {0, DefaultVerticalOffset}

\* tapRandomPointAboveElement after ensureElementVisible, lines 384-439
TapRandomPointAboveElementGesture(e, handedness, verticalOffset, screen, kx, ky) ==
    LET elementCenterX == (2 * e.x + e.width) * (Unit \div 2)
        tapAreaTop == Max(10, e.y - verticalOffset - 50)
        tapAreaBottom == Max(tapAreaTop + 20, e.y - 10)
        maxHorizontalBias ==
            Min(e.width * 16 * RandomSteps, screen.width * 8 * RandomSteps)
        tapX == CASE handedness = "right" ->
                       elementCenterX + RandomOf(kx, maxHorizontalBias)
                  [] handedness = "left" ->
                       elementCenterX - RandomOf(kx, maxHorizontalBias)
                  [] handedness = "neutral" ->
                       elementCenterX + CenteredOf(kx, maxHorizontalBias \div 2)
        tapAreaHeight == Max(1, tapAreaBottom - tapAreaTop)
        tapY == tapAreaTop * Unit + RandomOf(ky, tapAreaHeight * Unit)
        finalTapX == Max(10 * Unit, Min((screen.width - 10) * Unit, tapX))
        finalTapY == Max(10 * Unit, Min((screen.height - 10) * Unit, tapY))
    IN [NoGesture EXCEPT !.op = "tapRandomPointAboveElement",
                         !.issued = "tap",
                         !.handedness = handedness,
                         !.verticalOffset = verticalOffset,
                         !.screen = screen, !.element = e,
                         !.to = [x |-> Round(finalTapX, Unit),
                                 y |-> Round(finalTapY, Unit)]]

\* swipeScreen(direction, speed, length, handedness) called and computed
\* up to its driver call; the speed sets the duration only.
SwipeScreen ==
    /\ gesture = NoGesture
    /\ \E direction \in Directions, length \in Lengths,
          handedness \in Handednesses, screen \in Screens,
          kx \in Rands, ky \in Rands, km \in Rands, kd \in Rands :
          gesture' = SwipeScreenGesture(direction, length, handedness, screen,
                                        kx, ky, km, kd)
    /\ UNCHANGED <<recVars, retryVars, planVars, anVars, mainVars, crawlVars,
                   scrollVars, costVars, parseVars, reelVars>>

\* swipeWithinElement(element, direction, speed, length, handedness)
\* called and computed up to its driver call or its early return.
SwipeWithinElement ==
    /\ gesture = NoGesture
    /\ \E screen \in Screens :
       \E e \in ElementsOn(screen), direction \in Directions,
          length \in Lengths, handedness \in Handednesses,
          kx \in Rands, ky \in Rands, km \in Rands, kd \in Rands :
          gesture' = SwipeWithinElementGesture(e, direction, length,
                                               handedness, screen, kx, ky,
                                               km, kd)
    /\ UNCHANGED <<recVars, retryVars, planVars, anVars, mainVars, crawlVars,
                   scrollVars, costVars, parseVars, reelVars>>

\* swipeStartingFromElement(element, direction, speed, length, handedness)
\* called and computed up to its driver call or its early return.
SwipeStartingFromElement ==
    /\ gesture = NoGesture
    /\ \E screen \in Screens :
       \E e \in ElementsOn(screen), direction \in Directions,
          length \in Lengths, handedness \in Handednesses,
          kx \in Rands, ky \in Rands, km \in Rands, kd \in Rands :
          gesture' = SwipeStartingFromElementGesture(e, direction, length,
                                                     handedness, screen, kx,
                                                     ky, km, kd)
    /\ UNCHANGED <<recVars, retryVars, planVars, anVars, mainVars, crawlVars,
                   scrollVars, costVars, parseVars, reelVars>>

\* tapRandomPointAboveElement(element, handedness, verticalOffset) called
\* and computed up to its driver call.
TapRandomPointAboveElement ==
    /\ gesture = NoGesture
    /\ \E screen \in Screens :
       \E e \in ElementsOn(screen), handedness \in Handednesses,
          verticalOffset \in VerticalOffsets, kx \in Rands, ky \in Rands :
          gesture' = TapRandomPointAboveElementGesture(e, handedness,
                                                       verticalOffset, screen,
                                                       kx, ky)
    /\ UNCHANGED <<recVars, retryVars, planVars, anVars, mainVars, crawlVars,
                   scrollVars, costVars, parseVars, reelVars>>

GestureNext ==
    \/ SwipeScreen
    \/ SwipeWithinElement
    \/ SwipeStartingFromElement
    \/ TapRandomPointAboveElement

(***************************************************************************)
(* VertexCompletionClient.calculateCost                                    *)
(* (src/src/gcp/clients/vertex-completion.client.ts:33-42 and 124-137).    *)
(*                                                                         *)
(* The code computes in floating point; here a price is an integer count   *)
(* of tenths of a dollar per million tokens, so that a total is an integer *)
(* count of tenths of a millionth of a dollar.  The floating-point total   *)
(* is within a rounding error of the exact one: where the exact total is   *)
(* not halfway between two millionths Math.round gives the nearer one,     *)
(* and where it is halfway the floating-point total falls on either side,  *)
(* which cost_half_up fixes for the result at hand.                        *)
(***************************************************************************)
VertexModels == {"gemini-2.5-flash", "gemini-2.5-flash-lite"}

\* MODELS, lines 33-42, in tenths of a dollar per million tokens
ModelPricing(model_name) ==
    CASE model_name = "gemini-2.5-flash" ->
           [inputCostPer1M |-> 3, outputCostPer1M |-> 25]
      [] model_name = "gemini-2.5-flash-lite" ->
           [inputCostPer1M |-> 1, outputCostPer1M |-> 4]

\* a field of usageMetadata that is undefined
Undefined == 0 - 1

NoUsage ==
    [present |-> FALSE, promptTokenCount |-> Undefined,
     candidatesTokenCount |-> Undefined]

\* response.usageMetadata: absent, or present with each count a number or
\* undefined
Usages ==
    {NoUsage} \cup
    {[present |-> TRUE, promptTokenCount |-> i, candidatesTokenCount |-> o] :
        i \in (0..MaxTokens) \cup {Undefined},
        o \in (0..MaxTokens) \cup {Undefined}}

\* usageMetadata?.field ?? 0, lines 125-127
TokenCount(usage, field) ==
    IF usage.present /\ usage[field] # Undefined THEN usage[field] ELSE 0

\* Math.round as if it dropped the fraction
MathRoundTruncates(tenths, half_up) == tenths \div 10

\* Math.round(total_cost * 1_000_000), line 136, of a total in tenths of a
\* millionth; half_up: the floating-point total at an exact half is not
\* below the half
MathRound(tenths, half_up) ==
    LET whole == tenths \div 10
        rest == tenths % 10
    IN IF rest > 5 \/ (rest = 5 /\ half_up) THEN whole + 1 ELSE whole

\* calculateCost, lines 124-137, in millionths of a dollar
CalculateCost(usage, modelConfig, half_up) ==
    LET input_tokens == TokenCount(usage, "promptTokenCount")
        output_tokens == TokenCount(usage, "candidatesTokenCount")
        input_cost == input_tokens * modelConfig.inputCostPer1M
        output_cost == output_tokens * modelConfig.outputCostPer1M
        total_cost == input_cost + output_cost
    IN MathRound(total_cost, half_up)

\* calculateCost(result) called on the result at hand
CalculateCostCall ==
    /\ cost_model \in VertexModels
    /\ Len(cost_results) < MaxCostCalls
    /\ cost_results' =
          Append(cost_results,
                 CalculateCost(cost_usage, ModelPricing(cost_model),
                               cost_half_up))
    /\ UNCHANGED <<cost_model, cost_usage, cost_half_up>>
    /\ UNCHANGED <<recVars, retryVars, planVars, anVars, mainVars, crawlVars,
                   scrollVars, gestureVars, parseVars, reelVars>>

CostNext ==
    \/ CalculateCostCall

(***************************************************************************)
(* VertexCompletionClient.parseResultIntoJSON                              *)
(* (src/src/gcp/clients/vertex-completion.client.ts:113-117).              *)
(*                                                                         *)
(* A text is the sequence of its characters.  The payloads are JSON        *)
(* objects of one member whose value is a number or a string without       *)
(* escapes; JsonParse reads that grammar, with white space where JSON      *)
(* allows it, and gives a SyntaxError for every other text.                *)
(***************************************************************************)
\* the character U+0060, which no string of this language can hold
Backtick == "U+0060"
CodeBlockMarker == <<Backtick, Backtick, Backtick>>
LanguageTag == <<"j", "s", "o", "n">>

\* the pattern p is in the text s at index i
MatchesAt(s, p, i) ==
    /\ i + Len(p) - 1 <= Len(s)
    /\ \A k \in 1..Len(p) : s[i + k - 1] = p[k]

\* the index of the first occurrence of p in s at or after i, 0 for none
RECURSIVE IndexOfFrom(_, _, _)
IndexOfFrom(s, p, i) ==
    IF i + Len(p) - 1 > Len(s) THEN 0
    ELSE IF MatchesAt(s, p, i) THEN i
    ELSE IndexOfFrom(s, p, i + 1)

\* s.replace(/p/g, ""): every occurrence, left to right, what is left of
\* one occurrence never scanned again
RECURSIVE ReplaceAll(_, _)
ReplaceAll(s, p) ==
    LET i == IndexOfFrom(s, p, 1)
    IN IF i = 0 THEN s
       ELSE SubSeq(s, 1, i - 1) \o
            ReplaceAll(SubSeq(s, i + Len(p), Len(s)), p)

\* s.replace(p, "") with a string pattern: the first occurrence only
ReplaceFirst(s, p) ==
    LET i == IndexOfFrom(s, p, 1)
    IN IF i = 0 THEN s
       ELSE SubSeq(s, 1, i - 1) \o SubSeq(s, i + Len(p), Len(s))

\* white space of the JSON grammar
JsonWhitespace == {" ", "\n"}

\* the index of the first character at or after i that is no white space
RECURSIVE SkipWhitespace(_, _)
SkipWhitespace(s, i) ==
    IF i <= Len(s) /\ s[i] \in JsonWhitespace
    THEN SkipWhitespace(s, i + 1)
    ELSE i

\* the index of the quote that closes a string whose content starts at i,
\* 0 for none
RECURSIVE StringEnd(_, _)
StringEnd(s, i) ==
    IF i > Len(s) THEN 0
    ELSE IF s[i] = "\"" THEN i
    ELSE StringEnd(s, i + 1)

\* the index of the last digit of the run of digits that starts at i,
\* i - 1 for none
RECURSIVE NumberEnd(_, _)
NumberEnd(s, i) ==
    IF i <= Len(s) /\ s[i] \in Digits THEN NumberEnd(s, i + 1) ELSE i - 1

NoParse ==
    [kind |-> "none", key |-> <<>>, value |-> <<>>, is_number |-> FALSE]
SyntaxError ==
    [kind |-> "SyntaxError", key |-> <<>>, value |-> <<>>,
     is_number |-> FALSE]

\* JSON.parse of a text: the object { key: value } it denotes, or a
\* SyntaxError
JsonParse(s) ==
    LET a == SkipWhitespace(s, 1)
        b == SkipWhitespace(s, a + 1)
        c == StringEnd(s, b + 1)
        d == SkipWhitespace(s, c + 1)
        e == SkipWhitespace(s, d + 1)
        is_string == e <= Len(s) /\ s[e] = "\""
        f == IF is_string THEN StringEnd(s, e + 1) ELSE NumberEnd(s, e)
        g == SkipWhitespace(s, f + 1)
        h == SkipWhitespace(s, g + 1)
        well_formed ==
            /\ a <= Len(s) /\ s[a] = "{"
            /\ b <= Len(s) /\ s[b] = "\""
            /\ c # 0
            /\ d <= Len(s) /\ s[d] = ":"
            /\ e <= Len(s)
            /\ IF is_string THEN f # 0 ELSE f >= e
            /\ g <= Len(s) /\ s[g] = "}"
            /\ h > Len(s)
    IN IF well_formed
       THEN [kind |-> "object", key |-> SubSeq(s, b + 1, c - 1),
             value |-> IF is_string THEN SubSeq(s, e + 1, f - 1)
                                    ELSE SubSeq(s, e, f),
             is_number |-> ~is_string]
       ELSE SyntaxError

\* parseResultIntoJSON, lines 113-117
ParseResultIntoJSON(result) ==
    LET cleansed_result ==
            ReplaceFirst(ReplaceAll(result, CodeBlockMarker), LanguageTag)
    IN JsonParse(cleansed_result)

Quoted(s) == <<"\"">> \o s \o <<"\"">>

\* the keys and the values of the payloads: plain ones, and ones that
\* hold the characters of the language tag
PayloadKeys == {<<"k">>, <<"j", "s">>, LanguageTag, <<"a">> \o LanguageTag}
PayloadValues ==
    {<<"1">>, <<"2", "0">>, Quoted(<<"v">>), Quoted(LanguageTag),
     Quoted(<<"n", "o">> \o LanguageTag)}

\* the JSON the model answers with
JsonPayloads ==
    {<<"{">> \o Quoted(k) \o <<":">> \o v \o <<"}">> :
        k \in PayloadKeys, v \in PayloadValues}

\* How the model wraps its JSON: not at all, in a code block with the
\* language tag, in a code block without one.
Fencings == {"none", "tagged", "untagged"}
FencedText(payload, fencing) ==
    CASE fencing = "none" -> payload
      [] fencing = "tagged" ->
           CodeBlockMarker \o LanguageTag \o <<"\n">> \o payload \o
           <<"\n">> \o CodeBlockMarker
      [] fencing = "untagged" ->
           CodeBlockMarker \o <<"\n">> \o payload \o <<"\n">> \o
           CodeBlockMarker

\* parseResultIntoJSON(text) called on the text at hand; a SyntaxError is
\* what the call throws
ParseResultIntoJSONCall ==
    /\ parse_fencing \in Fencings
    /\ parse_out = NoParse
    /\ parse_out' = ParseResultIntoJSON(parse_text)
    /\ UNCHANGED <<parse_payload, parse_fencing, parse_text>>
    /\ UNCHANGED <<recVars, retryVars, planVars, anVars, mainVars, crawlVars,
                   scrollVars, gestureVars, costVars, reelVars>>

ParseNext ==
    \/ ParseResultIntoJSONCall

(***************************************************************************)
(* ReelsService.upsertReel with ReelDao.upsert and parseUploadedAt         *)
(* (part_009:38-85, part_007:318-381, sleep.ts:46-79): calls made one      *)
(* after another on one service.  A time is a number of milliseconds,      *)
(* counted from the construction of the service; a text is the sequence    *)
(* of its words.  An account is named by its username, which is unique     *)
(* in its table (part_008:160-164).                                        *)
(***************************************************************************)
\* (\d+) and parseInt(relativeMatch[1], 10), sleep.ts:49-53
Numerals == {"1", "2"}
ValueOf(word) == IF word = "1" THEN 1 ELSE 2

\* (second|minute|hour|day|week|month|year)s?, sleep.ts:50 and 54; the
\* units of the texts at hand
UnitOf(word) ==
    CASE word \in {"minute", "minutes"} -> "minute"
      [] word \in {"hour", "hours"} -> "hour"
      [] word \in {"day", "days"} -> "day"
      [] OTHER -> "none"

\* the table `milliseconds`, sleep.ts:56-64
Milliseconds(value, unit) ==
    CASE unit = "minute" -> value * 60 * 1000
      [] unit = "hour" -> value * 60 * 60 * 1000
      [] unit = "day" -> value * 24 * 60 * 60 * 1000

\* the places where the pattern of sleep.ts:49-51 matches
RelativeMatches(words) ==
    {k \in 1..(Len(words) - 2) :
        /\ words[k] \in Numerals
        /\ UnitOf(words[k + 1]) # "none"
        /\ words[k + 2] = "ago"}

\* new Date(uploaded_at_str), sleep.ts:70-73: the texts that are dates,
\* and the time of the one at hand, twenty days before the service was
\* constructed
DateTexts == {<<"January", "15,", "2024">>}
DateOf(words) == 0 - 20 * 24 * 60 * 60 * 1000

\* parseUploadedAt(uploaded_at_str) when new Date() is `now`,
\* sleep.ts:46-79
ParseUploadedAt(words, now) ==
    LET matches == RelativeMatches(words)
    IN IF matches # {}
       THEN LET k == CHOOSE m \in matches : \A n \in matches : m <= n
            IN now - Milliseconds(ValueOf(words[k]), UnitOf(words[k + 1]))
       ELSE IF words \in DateTexts THEN DateOf(words)
       ELSE now

\* the connect list of part_009:41-73: the accounts found; the empty one
\* is handed over as undefined (part_009:81-83)
Connect(usernames, accounts) ==
    {usernames[k] : k \in DOMAIN usernames} \cap accounts

\* the argument of reel_dao.upsert, part_009:75-84
UpsertInput(reel_data, now, accounts) ==
    [caption |-> reel_data.caption,
     like_count |-> reel_data.like_count,
     comment_count |-> reel_data.comment_count,
     share_count |-> reel_data.share_count,
     uploaded_at |-> ParseUploadedAt(reel_data.uploaded_at, now),
     collaborators |-> Connect(reel_data.collaborator_usernames, accounts),
     mentions |-> Connect(reel_data.mentioned_usernames, accounts)]

\* ReelDao.findByContent, part_007:324-339: the rows that findFirst may
\* return
FindByContent(rows, caption, uploaded_at) ==
    {k \in DOMAIN rows :
        /\ rows[k].caption = caption
        /\ rows[k].uploaded_at = uploaded_at}

\* ReelDao.create, part_007:293-301
ReelDaoCreate(rows, data) ==
    Append(rows, [id |-> Len(rows) + 1,
                  caption |-> data.caption,
                  uploaded_at |-> data.uploaded_at,
                  like_count |-> data.like_count,
                  comment_count |-> data.comment_count,
                  share_count |-> data.share_count,
                  collaborators |-> data.collaborators,
                  mentions |-> data.mentions])

\* ReelDao.update with the data of part_007:372-377: the three counters
\* and collaborators; connect adds the accounts to the ones linked, and
\* undefined leaves them; mentions is not among the data.
ReelDaoUpdate(row, data) ==
    [row EXCEPT !.like_count = data.like_count,
                !.comment_count = data.comment_count,
                !.share_count = data.share_count,
                !.collaborators = @ \cup data.collaborators]

\* the reel_data of the calls
Captions == {"c1", "c2"}
UploadedAtTexts ==
    {<<"2", "hours", "ago">>, <<"January", "15,", "2024">>, <<"Yesterday">>}
Counters ==
    {[like_count |-> 1, comment_count |-> 0, share_count |-> 0],
     [like_count |-> 2, comment_count |-> 1, share_count |-> 1]}
ReelDatas ==
    {[caption |-> c, uploaded_at |-> u,
      like_count |-> n.like_count, comment_count |-> n.comment_count,
      share_count |-> n.share_count,
      collaborator_usernames |-> co, mentioned_usernames |-> me] :
        c \in Captions, u \in UploadedAtTexts, n \in Counters,
        co \in {<<"a">>, <<"a", "b">>}, me \in {<<>>, <<"b">>}}

\* the account tables the calls are made on
AccountTables == {{"a"}, {"a", "b"}}

\* upsertReel(reel_data), part_009:38-85, with ReelDao.upsert,
\* part_007:362-381.  The one write is the last statement, so a call that
\* rejects leaves the tables as they were.
UpsertReelCall ==
    /\ Len(reel_log) < MaxReelCalls
    /\ \E reel_data \in ReelDatas :
          LET data == UpsertInput(reel_data, clock_now, db_accounts)
              existing == FindByContent(reel_rows, data.caption,
                                        data.uploaded_at)
          IN /\ IF existing # {}
                THEN \E k \in existing :
                        reel_rows' = [reel_rows EXCEPT
                                         ![k] = ReelDaoUpdate(@, data)]
                ELSE reel_rows' = ReelDaoCreate(reel_rows, data)
             /\ reel_log' = Append(reel_log, reel_data)
    /\ UNCHANGED clock_now
    /\ UNCHANGED <<recVars, retryVars, planVars, anVars, mainVars, crawlVars,
                   scrollVars, gestureVars, costVars, parseVars>>

\* time passes between two calls
ClockAdvances ==
    /\ clock_now < MaxClock
    /\ clock_now' = clock_now + 1
    /\ UNCHANGED <<reel_rows, reel_log>>
    /\ UNCHANGED <<recVars, retryVars, planVars, anVars, mainVars, crawlVars,
                   scrollVars, gestureVars, costVars, parseVars>>

ReelsNext ==
    \/ UpsertReelCall
    \/ ClockAdvances

(***************************************************************************)
(* Specifications, one per component.                                      *)
(***************************************************************************)
RecordingInit ==
    /\ is_screen_recording = FALSE
    /\ calls = [c \in Slots |-> IdleCall]
    /\ invoked = 0
    /\ driver_starts = 0
    /\ driver_stops = 0
    /\ write_calls = 0
    /\ capture_running = FALSE
    /\ retry_cfg = DefaultRetryConfig
    /\ retry_pc = "idle"
    /\ attempt = 0
    /\ delay = 0
    /\ sleeps = <<>>
    /\ op_calls = 0
    /\ retry_val = NoValue
    /\ retry_err = NoError
    /\ last_outcome = NoOutcome
    /\ plan_failures = 0
    /\ plan_fatal_at = 0
    /\ an_variant = "parse"
    /\ an_input = [type |-> "video", analysis_name |-> "test_video"]
    /\ an_pc = "idle"
    /\ retryCount = 0
    /\ prompt_calls = 0
    /\ model_requests = 0
    /\ an_result = NoResult
    /\ an_err = NoError
    /\ no_text_at = 0
    /\ null_completions = 0
    /\ plan_invalid = 0
    /\ main_pc = "idle"
    /\ services = FALSE
    /\ main_logged = "none"
    /\ prisma_handle = "none"
    /\ driver_session = "none"
    /\ cleanup_runs = 0
    /\ delete_session_calls = 0
    /\ disconnect_calls = 0
    /\ stack = <<>>
    /\ crawl_status = "idle"
    /\ crawl_err = "none"
    /\ failure = NoFailure
    /\ device_actions = 0
    /\ analysis_calls = 0
    /\ db_profiles = {}
    /\ db_reels = {}
    /\ db_accounts = {}
    /\ fs_files = {}
    /\ files_made = 0
    /\ pending_reads = 0
    /\ sc_pc = "idle"
    /\ sc_op = "none"
    /\ sc_alignToTop = TRUE
    /\ sc_maxAttempts = 0
    /\ attempts = 0
    /\ elem = NoGeometry
    /\ position = "none"
    /\ last_attr = "none"
    /\ last_visible = FALSE
    /\ swipes = 0
    /\ settle_pauses = 0
    /\ last_swipe = NoSwipe
    /\ sc_err = "none"
    /\ acted = "none"
    /\ tap_point = NoPoint
    /\ exhausted = FALSE
    /\ gesture = NoGesture
    /\ cost_model = "none"
    /\ cost_usage = NoUsage
    /\ cost_half_up = FALSE
    /\ cost_results = <<>>
    /\ parse_payload = <<>>
    /\ parse_fencing = "none"
    /\ parse_text = <<>>
    /\ parse_out = NoParse
    /\ clock_now = 0
    /\ reel_rows = <<>>
    /\ reel_log = <<>>

SpecRecording == RecordingInit /\ [][RecordingNext]_vars

\* A direct retry call: any planned operation.
RetryInit ==
    /\ is_screen_recording = FALSE
    /\ calls = [c \in Slots |-> IdleCall]
    /\ invoked = 0
    /\ driver_starts = 0
    /\ driver_stops = 0
    /\ write_calls = 0
    /\ capture_running = FALSE
    /\ retry_cfg = DefaultRetryConfig
    /\ retry_pc = "idle"
    /\ attempt = 0
    /\ delay = 0
    /\ sleeps = <<>>
    /\ op_calls = 0
    /\ retry_val = NoValue
    /\ retry_err = NoError
    /\ last_outcome = NoOutcome
    /\ plan_failures \in 0..MaxFailures
    /\ plan_fatal_at \in 0..MaxFailures
    /\ an_variant = "parse"
    /\ an_input = [type |-> "video", analysis_name |-> "test_video"]
    /\ an_pc = "idle"
    /\ retryCount = 0
    /\ prompt_calls = 0
    /\ model_requests = 0
    /\ an_result = NoResult
    /\ an_err = NoError
    /\ no_text_at = 0
    /\ null_completions = 0
    /\ plan_invalid = 0
    /\ main_pc = "idle"
    /\ services = FALSE
    /\ main_logged = "none"
    /\ prisma_handle = "none"
    /\ driver_session = "none"
    /\ cleanup_runs = 0
    /\ delete_session_calls = 0
    /\ disconnect_calls = 0
    /\ stack = <<>>
    /\ crawl_status = "idle"
    /\ crawl_err = "none"
    /\ failure = NoFailure
    /\ device_actions = 0
    /\ analysis_calls = 0
    /\ db_profiles = {}
    /\ db_reels = {}
    /\ db_accounts = {}
    /\ fs_files = {}
    /\ files_made = 0
    /\ pending_reads = 0
    /\ sc_pc = "idle"
    /\ sc_op = "none"
    /\ sc_alignToTop = TRUE
    /\ sc_maxAttempts = 0
    /\ attempts = 0
    /\ elem = NoGeometry
    /\ position = "none"
    /\ last_attr = "none"
    /\ last_visible = FALSE
    /\ swipes = 0
    /\ settle_pauses = 0
    /\ last_swipe = NoSwipe
    /\ sc_err = "none"
    /\ acted = "none"
    /\ tap_point = NoPoint
    /\ exhausted = FALSE
    /\ gesture = NoGesture
    /\ cost_model = "none"
    /\ cost_usage = NoUsage
    /\ cost_half_up = FALSE
    /\ cost_results = <<>>
    /\ parse_payload = <<>>
    /\ parse_fencing = "none"
    /\ parse_text = <<>>
    /\ parse_out = NoParse
    /\ clock_now = 0
    /\ reel_rows = <<>>
    /\ reel_log = <<>>

SpecRetry == RetryInit /\ [][RetryNext]_vars

\* One analyze call: either version of the service, any input, any number
\* of leading responses that miss the schema.
AnalyzeInit ==
    /\ is_screen_recording = FALSE
    /\ calls = [c \in Slots |-> IdleCall]
    /\ invoked = 0
    /\ driver_starts = 0
    /\ driver_stops = 0
    /\ write_calls = 0
    /\ capture_running = FALSE
    /\ retry_cfg = DefaultRetryConfig
    /\ retry_pc = "idle"
    /\ attempt = 0
    /\ delay = 0
    /\ sleeps = <<>>
    /\ op_calls = 0
    /\ retry_val = NoValue
    /\ retry_err = NoError
    /\ last_outcome = NoOutcome
    /\ plan_failures = 0
    /\ plan_fatal_at = 0
    /\ an_variant \in Variants
    /\ an_input \in AnalyzeInputs
    /\ an_pc = "idle"
    /\ retryCount = 0
    /\ prompt_calls = 0
    /\ model_requests = 0
    /\ an_result = NoResult
    /\ an_err = NoError
    /\ no_text_at = 0
    /\ null_completions = 0
    /\ plan_invalid \in 0..MaxInvalid
    /\ main_pc = "idle"
    /\ services = FALSE
    /\ main_logged = "none"
    /\ prisma_handle = "none"
    /\ driver_session = "none"
    /\ cleanup_runs = 0
    /\ delete_session_calls = 0
    /\ disconnect_calls = 0
    /\ stack = <<>>
    /\ crawl_status = "idle"
    /\ crawl_err = "none"
    /\ failure = NoFailure
    /\ device_actions = 0
    /\ analysis_calls = 0
    /\ db_profiles = {}
    /\ db_reels = {}
    /\ db_accounts = {}
    /\ fs_files = {}
    /\ files_made = 0
    /\ pending_reads = 0
    /\ sc_pc = "idle"
    /\ sc_op = "none"
    /\ sc_alignToTop = TRUE
    /\ sc_maxAttempts = 0
    /\ attempts = 0
    /\ elem = NoGeometry
    /\ position = "none"
    /\ last_attr = "none"
    /\ last_visible = FALSE
    /\ swipes = 0
    /\ settle_pauses = 0
    /\ last_swipe = NoSwipe
    /\ sc_err = "none"
    /\ acted = "none"
    /\ tap_point = NoPoint
    /\ exhausted = FALSE
    /\ gesture = NoGesture
    /\ cost_model = "none"
    /\ cost_usage = NoUsage
    /\ cost_half_up = FALSE
    /\ cost_results = <<>>
    /\ parse_payload = <<>>
    /\ parse_fencing = "none"
    /\ parse_text = <<>>
    /\ parse_out = NoParse
    /\ clock_now = 0
    /\ reel_rows = <<>>
    /\ reel_log = <<>>

SpecAnalyze == AnalyzeInit /\ [][AnalyzeNext]_vars

\* Every awaited model request is answered and every backoff timer fires.
SpecAnalyzeFair == SpecAnalyze /\ WF_vars(AnalyzeNext)

CrawlInit ==
    /\ is_screen_recording = FALSE
    /\ calls = [c \in Slots |-> IdleCall]
    /\ invoked = 0
    /\ driver_starts = 0
    /\ driver_stops = 0
    /\ write_calls = 0
    /\ capture_running = FALSE
    /\ retry_cfg = DefaultRetryConfig
    /\ retry_pc = "idle"
    /\ attempt = 0
    /\ delay = 0
    /\ sleeps = <<>>
    /\ op_calls = 0
    /\ retry_val = NoValue
    /\ retry_err = NoError
    /\ last_outcome = NoOutcome
    /\ plan_failures = 0
    /\ plan_fatal_at = 0
    /\ an_variant = "parse"
    /\ an_input = [type |-> "video", analysis_name |-> "test_video"]
    /\ an_pc = "idle"
    /\ retryCount = 0
    /\ prompt_calls = 0
    /\ model_requests = 0
    /\ an_result = NoResult
    /\ an_err = NoError
    /\ no_text_at = 0
    /\ null_completions = 0
    /\ plan_invalid = 0
    /\ main_pc = "start"
    /\ services = FALSE
    /\ main_logged = "none"
    /\ prisma_handle = "none"
    /\ driver_session = "none"
    /\ cleanup_runs = 0
    /\ delete_session_calls = 0
    /\ disconnect_calls = 0
    /\ stack = <<>>
    /\ crawl_status = "idle"
    /\ crawl_err = "none"
    /\ failure = NoFailure
    /\ device_actions = 0
    /\ analysis_calls = 0
    /\ db_profiles = {}
    /\ db_reels = {}
    /\ db_accounts = {}
    /\ fs_files = {}
    /\ files_made = 0
    /\ pending_reads = 0
    /\ sc_pc = "idle"
    /\ sc_op = "none"
    /\ sc_alignToTop = TRUE
    /\ sc_maxAttempts = 0
    /\ attempts = 0
    /\ elem = NoGeometry
    /\ position = "none"
    /\ last_attr = "none"
    /\ last_visible = FALSE
    /\ swipes = 0
    /\ settle_pauses = 0
    /\ last_swipe = NoSwipe
    /\ sc_err = "none"
    /\ acted = "none"
    /\ tap_point = NoPoint
    /\ exhausted = FALSE
    /\ gesture = NoGesture
    /\ cost_model = "none"
    /\ cost_usage = NoUsage
    /\ cost_half_up = FALSE
    /\ cost_results = <<>>
    /\ parse_payload = <<>>
    /\ parse_fencing = "none"
    /\ parse_text = <<>>
    /\ parse_out = NoParse
    /\ clock_now = 0
    /\ reel_rows = <<>>
    /\ reel_log = <<>>

SpecCrawl == CrawlInit /\ [][CrawlNext]_vars

ScrollInit ==
    /\ is_screen_recording = FALSE
    /\ calls = [c \in Slots |-> IdleCall]
    /\ invoked = 0
    /\ driver_starts = 0
    /\ driver_stops = 0
    /\ write_calls = 0
    /\ capture_running = FALSE
    /\ retry_cfg = DefaultRetryConfig
    /\ retry_pc = "idle"
    /\ attempt = 0
    /\ delay = 0
    /\ sleeps = <<>>
    /\ op_calls = 0
    /\ retry_val = NoValue
    /\ retry_err = NoError
    /\ last_outcome = NoOutcome
    /\ plan_failures = 0
    /\ plan_fatal_at = 0
    /\ an_variant = "parse"
    /\ an_input = [type |-> "video", analysis_name |-> "test_video"]
    /\ an_pc = "idle"
    /\ retryCount = 0
    /\ prompt_calls = 0
    /\ model_requests = 0
    /\ an_result = NoResult
    /\ an_err = NoError
    /\ no_text_at = 0
    /\ null_completions = 0
    /\ plan_invalid = 0
    /\ main_pc = "idle"
    /\ services = FALSE
    /\ main_logged = "none"
    /\ prisma_handle = "none"
    /\ driver_session = "none"
    /\ cleanup_runs = 0
    /\ delete_session_calls = 0
    /\ disconnect_calls = 0
    /\ stack = <<>>
    /\ crawl_status = "idle"
    /\ crawl_err = "none"
    /\ failure = NoFailure
    /\ device_actions = 0
    /\ analysis_calls = 0
    /\ db_profiles = {}
    /\ db_reels = {}
    /\ db_accounts = {}
    /\ fs_files = {}
    /\ files_made = 0
    /\ pending_reads = 0
    /\ sc_pc = "idle"
    /\ sc_op = "none"
    /\ sc_alignToTop = TRUE
    /\ sc_maxAttempts = 0
    /\ attempts = 0
    /\ elem = NoGeometry
    /\ position = "none"
    /\ last_attr = "none"
    /\ last_visible = FALSE
    /\ swipes = 0
    /\ settle_pauses = 0
    /\ last_swipe = NoSwipe
    /\ sc_err = "none"
    /\ acted = "none"
    /\ tap_point = NoPoint
    /\ exhausted = FALSE
    /\ gesture = NoGesture
    /\ cost_model = "none"
    /\ cost_usage = NoUsage
    /\ cost_half_up = FALSE
    /\ cost_results = <<>>
    /\ parse_payload = <<>>
    /\ parse_fencing = "none"
    /\ parse_text = <<>>
    /\ parse_out = NoParse
    /\ clock_now = 0
    /\ reel_rows = <<>>
    /\ reel_log = <<>>

SpecScroll == ScrollInit /\ [][ScrollNext]_vars

GestureInit ==
    /\ is_screen_recording = FALSE
    /\ calls = [c \in Slots |-> IdleCall]
    /\ invoked = 0
    /\ driver_starts = 0
    /\ driver_stops = 0
    /\ write_calls = 0
    /\ capture_running = FALSE
    /\ retry_cfg = DefaultRetryConfig
    /\ retry_pc = "idle"
    /\ attempt = 0
    /\ delay = 0
    /\ sleeps = <<>>
    /\ op_calls = 0
    /\ retry_val = NoValue
    /\ retry_err = NoError
    /\ last_outcome = NoOutcome
    /\ plan_failures = 0
    /\ plan_fatal_at = 0
    /\ an_variant = "parse"
    /\ an_input = [type |-> "video", analysis_name |-> "test_video"]
    /\ an_pc = "idle"
    /\ retryCount = 0
    /\ prompt_calls = 0
    /\ model_requests = 0
    /\ an_result = NoResult
    /\ an_err = NoError
    /\ no_text_at = 0
    /\ null_completions = 0
    /\ plan_invalid = 0
    /\ main_pc = "idle"
    /\ services = FALSE
    /\ main_logged = "none"
    /\ prisma_handle = "none"
    /\ driver_session = "none"
    /\ cleanup_runs = 0
    /\ delete_session_calls = 0
    /\ disconnect_calls = 0
    /\ stack = <<>>
    /\ crawl_status = "idle"
    /\ crawl_err = "none"
    /\ failure = NoFailure
    /\ device_actions = 0
    /\ analysis_calls = 0
    /\ db_profiles = {}
    /\ db_reels = {}
    /\ db_accounts = {}
    /\ fs_files = {}
    /\ files_made = 0
    /\ pending_reads = 0
    /\ sc_pc = "idle"
    /\ sc_op = "none"
    /\ sc_alignToTop = TRUE
    /\ sc_maxAttempts = 0
    /\ attempts = 0
    /\ elem = NoGeometry
    /\ position = "none"
    /\ last_attr = "none"
    /\ last_visible = FALSE
    /\ swipes = 0
    /\ settle_pauses = 0
    /\ last_swipe = NoSwipe
    /\ sc_err = "none"
    /\ acted = "none"
    /\ tap_point = NoPoint
    /\ exhausted = FALSE
    /\ gesture = NoGesture
    /\ cost_model = "none"
    /\ cost_usage = NoUsage
    /\ cost_half_up = FALSE
    /\ cost_results = <<>>
    /\ parse_payload = <<>>
    /\ parse_fencing = "none"
    /\ parse_text = <<>>
    /\ parse_out = NoParse
    /\ clock_now = 0
    /\ reel_rows = <<>>
    /\ reel_log = <<>>

SpecGesture == GestureInit /\ [][GestureNext]_vars

CostInit ==
    /\ is_screen_recording = FALSE
    /\ calls = [c \in Slots |-> IdleCall]
    /\ invoked = 0
    /\ driver_starts = 0
    /\ driver_stops = 0
    /\ write_calls = 0
    /\ capture_running = FALSE
    /\ retry_cfg = DefaultRetryConfig
    /\ retry_pc = "idle"
    /\ attempt = 0
    /\ delay = 0
    /\ sleeps = <<>>
    /\ op_calls = 0
    /\ retry_val = NoValue
    /\ retry_err = NoError
    /\ last_outcome = NoOutcome
    /\ plan_failures = 0
    /\ plan_fatal_at = 0
    /\ an_variant = "parse"
    /\ an_input = [type |-> "video", analysis_name |-> "test_video"]
    /\ an_pc = "idle"
    /\ retryCount = 0
    /\ prompt_calls = 0
    /\ model_requests = 0
    /\ an_result = NoResult
    /\ an_err = NoError
    /\ no_text_at = 0
    /\ null_completions = 0
    /\ plan_invalid = 0
    /\ main_pc = "idle"
    /\ services = FALSE
    /\ main_logged = "none"
    /\ prisma_handle = "none"
    /\ driver_session = "none"
    /\ cleanup_runs = 0
    /\ delete_session_calls = 0
    /\ disconnect_calls = 0
    /\ stack = <<>>
    /\ crawl_status = "idle"
    /\ crawl_err = "none"
    /\ failure = NoFailure
    /\ device_actions = 0
    /\ analysis_calls = 0
    /\ db_profiles = {}
    /\ db_reels = {}
    /\ db_accounts = {}
    /\ fs_files = {}
    /\ files_made = 0
    /\ pending_reads = 0
    /\ sc_pc = "idle"
    /\ sc_op = "none"
    /\ sc_alignToTop = TRUE
    /\ sc_maxAttempts = 0
    /\ attempts = 0
    /\ elem = NoGeometry
    /\ position = "none"
    /\ last_attr = "none"
    /\ last_visible = FALSE
    /\ swipes = 0
    /\ settle_pauses = 0
    /\ last_swipe = NoSwipe
    /\ sc_err = "none"
    /\ acted = "none"
    /\ tap_point = NoPoint
    /\ exhausted = FALSE
    /\ gesture = NoGesture
    /\ cost_model \in VertexModels
    /\ cost_usage \in Usages
    /\ cost_half_up \in BOOLEAN
    /\ cost_results = <<>>
    /\ parse_payload = <<>>
    /\ parse_fencing = "none"
    /\ parse_text = <<>>
    /\ parse_out = NoParse
    /\ clock_now = 0
    /\ reel_rows = <<>>
    /\ reel_log = <<>>

SpecCost == CostInit /\ [][CostNext]_vars

ParseInit ==
    /\ is_screen_recording = FALSE
    /\ calls = [c \in Slots |-> IdleCall]
    /\ invoked = 0
    /\ driver_starts = 0
    /\ driver_stops = 0
    /\ write_calls = 0
    /\ capture_running = FALSE
    /\ retry_cfg = DefaultRetryConfig
    /\ retry_pc = "idle"
    /\ attempt = 0
    /\ delay = 0
    /\ sleeps = <<>>
    /\ op_calls = 0
    /\ retry_val = NoValue
    /\ retry_err = NoError
    /\ last_outcome = NoOutcome
    /\ plan_failures = 0
    /\ plan_fatal_at = 0
    /\ an_variant = "parse"
    /\ an_input = [type |-> "video", analysis_name |-> "test_video"]
    /\ an_pc = "idle"
    /\ retryCount = 0
    /\ prompt_calls = 0
    /\ model_requests = 0
    /\ an_result = NoResult
    /\ an_err = NoError
    /\ no_text_at = 0
    /\ null_completions = 0
    /\ plan_invalid = 0
    /\ main_pc = "idle"
    /\ services = FALSE
    /\ main_logged = "none"
    /\ prisma_handle = "none"
    /\ driver_session = "none"
    /\ cleanup_runs = 0
    /\ delete_session_calls = 0
    /\ disconnect_calls = 0
    /\ stack = <<>>
    /\ crawl_status = "idle"
    /\ crawl_err = "none"
    /\ failure = NoFailure
    /\ device_actions = 0
    /\ analysis_calls = 0
    /\ db_profiles = {}
    /\ db_reels = {}
    /\ db_accounts = {}
    /\ fs_files = {}
    /\ files_made = 0
    /\ pending_reads = 0
    /\ sc_pc = "idle"
    /\ sc_op = "none"
    /\ sc_alignToTop = TRUE
    /\ sc_maxAttempts = 0
    /\ attempts = 0
    /\ elem = NoGeometry
    /\ position = "none"
    /\ last_attr = "none"
    /\ last_visible = FALSE
    /\ swipes = 0
    /\ settle_pauses = 0
    /\ last_swipe = NoSwipe
    /\ sc_err = "none"
    /\ acted = "none"
    /\ tap_point = NoPoint
    /\ exhausted = FALSE
    /\ gesture = NoGesture
    /\ cost_model = "none"
    /\ cost_usage = NoUsage
    /\ cost_half_up = FALSE
    /\ cost_results = <<>>
    /\ parse_payload \in JsonPayloads
    /\ parse_fencing \in Fencings
    /\ parse_text = FencedText(parse_payload, parse_fencing)
    /\ parse_out = NoParse
    /\ clock_now = 0
    /\ reel_rows = <<>>
    /\ reel_log = <<>>

SpecParse == ParseInit /\ [][ParseNext]_vars

ReelsInit ==
    /\ is_screen_recording = FALSE
    /\ calls = [c \in Slots |-> IdleCall]
    /\ invoked = 0
    /\ driver_starts = 0
    /\ driver_stops = 0
    /\ write_calls = 0
    /\ capture_running = FALSE
    /\ retry_cfg = DefaultRetryConfig
    /\ retry_pc = "idle"
    /\ attempt = 0
    /\ delay = 0
    /\ sleeps = <<>>
    /\ op_calls = 0
    /\ retry_val = NoValue
    /\ retry_err = NoError
    /\ last_outcome = NoOutcome
    /\ plan_failures = 0
    /\ plan_fatal_at = 0
    /\ an_variant = "parse"
    /\ an_input = [type |-> "video", analysis_name |-> "test_video"]
    /\ an_pc = "idle"
    /\ retryCount = 0
    /\ prompt_calls = 0
    /\ model_requests = 0
    /\ an_result = NoResult
    /\ an_err = NoError
    /\ no_text_at = 0
    /\ null_completions = 0
    /\ plan_invalid = 0
    /\ main_pc = "idle"
    /\ services = FALSE
    /\ main_logged = "none"
    /\ prisma_handle = "none"
    /\ driver_session = "none"
    /\ cleanup_runs = 0
    /\ delete_session_calls = 0
    /\ disconnect_calls = 0
    /\ stack = <<>>
    /\ crawl_status = "idle"
    /\ crawl_err = "none"
    /\ failure = NoFailure
    /\ device_actions = 0
    /\ analysis_calls = 0
    /\ db_profiles = {}
    /\ db_reels = {}
    /\ db_accounts \in AccountTables
    /\ fs_files = {}
    /\ files_made = 0
    /\ pending_reads = 0
    /\ sc_pc = "idle"
    /\ sc_op = "none"
    /\ sc_alignToTop = TRUE
    /\ sc_maxAttempts = 0
    /\ attempts = 0
    /\ elem = NoGeometry
    /\ position = "none"
    /\ last_attr = "none"
    /\ last_visible = FALSE
    /\ swipes = 0
    /\ settle_pauses = 0
    /\ last_swipe = NoSwipe
    /\ sc_err = "none"
    /\ acted = "none"
    /\ tap_point = NoPoint
    /\ exhausted = FALSE
    /\ gesture = NoGesture
    /\ cost_model = "none"
    /\ cost_usage = NoUsage
    /\ cost_half_up = FALSE
    /\ cost_results = <<>>
    /\ parse_payload = <<>>
    /\ parse_fencing = "none"
    /\ parse_text = <<>>
    /\ parse_out = NoParse
    /\ clock_now = 0
    /\ reel_rows = <<>>
    /\ reel_log = <<>>

SpecReels == ReelsInit /\ [][ReelsNext]_vars

(***************************************************************************)
(* Claims about the recording lifecycle (SpecRecording).                   *)
(***************************************************************************)
\* This step is the entry of a new invocation of method op in slot c.
Invokes(c, op) == calls'[c].id # calls[c].id /\ calls'[c].op = op

\* C1: saveScreenRecording invoked while no recording is active (never
\* started, or already saved) throws "not started", issues no driver
\* stop-recording call, writes no file and leaves the flag false; the
\* rejected invocation is over at once, so it never reaches the driver or
\* the file system later either.
C1_SaveInactiveRejected ==
    /\ [][\A c \in Slots :
            (Invokes(c, "save") /\ ~is_screen_recording) =>
                /\ calls'[c].pc = "threw"
                /\ calls'[c].err = "not_started"
                /\ driver_stops' = driver_stops
                /\ write_calls' = write_calls
                /\ is_screen_recording' = FALSE]_vars
    /\ [](\A c \in Slots :
            (calls[c].op = "save" /\ ~calls[c].entry_flag) =>
                calls[c].pc = "threw")

\* C1 witness: a save rejected with no start before it, and another one
\* rejected after the previous recording had been saved.
C1_Witness ==
    \E c, d \in Slots :
        /\ calls[c].op = "save" /\ calls[c].err = "not_started"
        /\ calls[c].id = 1
        /\ calls[d].op = "save" /\ calls[d].err = "not_started"
        /\ calls[d].id > 1
        /\ driver_starts = 1 /\ driver_stops = 1

\* C2: startScreenRecording invoked while a recording is active returns
\* normally, leaves the flag true and issues no driver start-recording call.
C2_StartActiveNoOp ==
    [][\A c \in Slots :
          (Invokes(c, "start") /\ is_screen_recording) =>
              /\ calls'[c].pc = "returned"
              /\ calls'[c].err = "none"
              /\ is_screen_recording' = TRUE
              /\ driver_starts' = driver_starts]_vars

\* C2 witness: a start that found the flag set has returned, and the one
\* driver start-recording call is that of the earlier invocation.
C2_Witness ==
    \E c \in Slots :
        /\ calls[c].op = "start" /\ calls[c].entry_flag
        /\ calls[c].pc = "returned"
        /\ driver_starts = 1 /\ driver_stops = 0 /\ is_screen_recording

\* C3: the driver start-recording calls issued exceed the driver
\* stop-recording calls issued by 0 or 1, after any sequence of calls.
C3_AtMostOneActive == driver_starts - driver_stops \in {0, 1}

\* C3 witness: a second recording is active after the first was saved and
\* after calls that were refused (a start while active, a save while not).
C3_Witness ==
    /\ driver_starts = 2 /\ driver_stops = 1 /\ is_screen_recording
    /\ invoked > driver_starts + driver_stops

\* no invocation is suspended at a command of the driver
NoDriverCommandPending ==
    \A c \in Slots : calls[c].pc \notin {"await_start", "await_stop"}

\* C34: the flag is true exactly when a capture of the driver is in
\* progress, in every state in which no driver command is pending, those
\* after a failure included: after a rejected start-recording command the
\* flag is false, and after a rejected stop-recording command, a failed
\* write or a failed transcode the capture is not marked inactive while
\* it still runs.
C34_FlagTracksCapture ==
    NoDriverCommandPending => (is_screen_recording <=> capture_running)

\* a start whose driver command was rejected has left the flag true with
\* no capture running and no other invocation made
C34_FailedStartLeavesFlag ==
    \E c \in Slots :
        /\ calls[c].op = "start" /\ calls[c].err = "driver"
        /\ invoked = 1
        /\ is_screen_recording
        /\ ~capture_running

\* the latest invocation is one of method op and is suspended at an await
SuspendedLatest(op) ==
    \E d \in Slots :
        /\ calls[d].op = op
        /\ ~Settled(d)
        /\ calls[d].id = invoked

\* C35: a startScreenRecording invoked while the startScreenRecording
\* before it is suspended at its await issues no driver start-recording
\* call and returns, so the two issue exactly one; a saveScreenRecording
\* invoked while the saveScreenRecording before it is suspended at one of
\* its awaits issues no driver stop-recording call and throws "not
\* started", so the two issue exactly one.
C35_InterleavedCallsIssueOne ==
    [][\A c \in Slots :
          /\ (Invokes(c, "start") /\ SuspendedLatest("start")) =>
                /\ calls'[c].pc = "returned"
                /\ driver_starts' = driver_starts
                /\ is_screen_recording'
          /\ (Invokes(c, "save") /\ SuspendedLatest("save")) =>
                /\ calls'[c].pc = "threw"
                /\ calls'[c].err = "not_started"
                /\ driver_stops' = driver_stops
                /\ ~is_screen_recording']_vars

\* C35 witness: after one driver start-recording call, a save is
\* suspended at an await and the save invoked next has thrown "not
\* started"; one driver stop-recording call has been issued.
C35_Witness ==
    \E c, d \in Slots :
        /\ calls[c].op = "save" /\ ~Settled(c)
        /\ calls[d].op = "save" /\ calls[d].err = "not_started"
        /\ calls[d].id = calls[c].id + 1
        /\ driver_starts = 1 /\ driver_stops = 1

(***************************************************************************)
(* Claims about retryWithExponentialBackoff (SpecRetry).                   *)
(***************************************************************************)
RetryOver == retry_pc \in {"returned", "threw"}

\* C4, as claimed: the sleeps are d1 = initialDelay and
\* d(n+1) = min(2 * d(n), maxDelay), so 1000 ms then 2000 ms by default,
\* and none exceeds maxDelay.
C4_DelaysStartAtInitialDelay ==
    /\ Len(sleeps) >= 1 => sleeps[1] = retry_cfg.initialDelay
    /\ \A n \in 1..(Len(sleeps) - 1) :
          sleeps[n + 1] = Min(2 * sleeps[n], retry_cfg.maxDelay)
    /\ \A n \in 1..Len(sleeps) : sleeps[n] <= retry_cfg.maxDelay

\* C5: with f transient failures in a row before the operation would
\* succeed, and no other error, the operation is invoked exactly
\* min(f + 1, maxAttempts) times, and its value is returned if and only if
\* f < maxAttempts.
C5_AttemptCount ==
    (RetryOver /\ plan_fatal_at = 0) =>
        /\ op_calls = Min(plan_failures + 1, retry_cfg.maxAttempts)
        /\ (retry_pc = "returned") <=> (plan_failures < retry_cfg.maxAttempts)
        /\ retry_pc = "returned" =>
              retry_val = [request |-> plan_failures + 1, shape_ok |-> TRUE]

\* C5 witness: the value is returned by the last attempt the default
\* config allows, after two transient failures.
C5_Witness ==
    /\ retry_pc = "returned"
    /\ retry_cfg = DefaultRetryConfig
    /\ plan_failures = 2 /\ plan_fatal_at = 0
    /\ op_calls = 3

\* C6: an error that is neither a parse error nor an overload (503) signal
\* is rethrown as it is, on whichever attempt the operation throws it: no
\* sleep and no further invocation of the operation follows it.
C6_FatalRethrown ==
    (~last_outcome.ok /\ last_outcome.err \in OtherErrors) =>
        /\ retry_pc = "threw"
        /\ retry_err = last_outcome.err
        /\ op_calls = plan_fatal_at
        /\ Len(sleeps) = op_calls - 1

\* C6 witness: the third call throws a Google error without 503, after
\* two transient failures and their two sleeps.
C6_Witness ==
    /\ retry_pc = "threw"
    /\ retry_err = ErrGoogleOther
    /\ op_calls = 3 /\ Len(sleeps) = 2

\* C7: after maxAttempts transient failures in a row the call throws the
\* terminal "failed after N attempts" error, having slept maxAttempts - 1
\* times: there is no sleep after the last failed attempt.
C7_ExhaustionThrows ==
    /\ (RetryOver /\ plan_fatal_at = 0
            /\ plan_failures >= retry_cfg.maxAttempts) =>
          /\ retry_pc = "threw"
          /\ retry_err = ErrExhausted
          /\ op_calls = retry_cfg.maxAttempts
          /\ Len(sleeps) = retry_cfg.maxAttempts - 1
    /\ retry_pc = "sleeping" => op_calls < retry_cfg.maxAttempts

\* C7 witness: the default config gives up after three transient failures
\* and two sleeps.
C7_Witness ==
    /\ retry_pc = "threw" /\ retry_err = ErrExhausted
    /\ retry_cfg = DefaultRetryConfig
    /\ plan_failures >= 3
    /\ op_calls = 3 /\ Len(sleeps) = 2

(***************************************************************************)
(* Claims about analyze (SpecAnalyze, SpecAnalyzeFair).                    *)
(***************************************************************************)
AnalyzeOver == an_pc \in {"returned", "threw"}

\* C8, as claimed: when the responses of attempts 1 and 2 miss the schema
\* and that of attempt 3 fits it (every prompt call returning a
\* completion), analyze makes exactly 3 prompt calls and returns the
\* parsed result of the third.
C8_ThirdAttemptReturned ==
    (AnalyzeOver /\ plan_invalid = 2 /\ null_completions = 0
        /\ an_err \in {NoError, ErrZod}) =>
        /\ an_pc = "returned"
        /\ prompt_calls = 3
        /\ an_result.parsed_ok
        /\ an_result.attempt = 3

\* C9: analyze makes at most maxRetries retries after its first attempt,
\* and when every response misses the schema it ends: it returns the
\* failed result of its last attempt or throws, and does not retry again.
C9_AppRetriesBounded ==
    /\ [](retryCount <= MaxAppRetries /\ prompt_calls <= MaxAppRetries + 1)
    /\ []((an_pc = "returned" /\ plan_invalid > MaxAppRetries) =>
            /\ ~an_result.parsed_ok
            /\ an_result.attempt = MaxAppRetries + 1
            /\ prompt_calls = MaxAppRetries + 1)
    /\ []((an_pc = "threw" /\ an_err = ErrZod) =>
            prompt_calls = retryCount + 1)
    /\ <>AnalyzeOver

\* C9 witness: every response missed the schema and the fourth attempt's
\* failed result is returned.
C9_Witness ==
    /\ an_variant = "safeParse"
    /\ an_pc = "returned"
    /\ plan_invalid > MaxAppRetries
    /\ null_completions = 0
    /\ prompt_calls = MaxAppRetries + 1
    /\ ~an_result.parsed_ok

\* C10: a response without text ends the analyze call with that error at
\* once: no model request follows it from the backoff layer (no sleep
\* either) or from the validation retry, so when it answers the first
\* request that request is the only one.
C10_NoTextAborts ==
    no_text_at > 0 =>
        /\ an_pc = "threw"
        /\ an_err = ErrNoText
        /\ retry_pc = "threw"
        /\ model_requests = no_text_at
        /\ Len(sleeps) = op_calls - 1

\* C10 witness: the first request is answered without text and analyze
\* has thrown after that one request.
C10_Witness ==
    /\ no_text_at = 1
    /\ model_requests = 1 /\ prompt_calls = 1
    /\ an_pc = "threw" /\ an_err = ErrNoText

\* This step enters the transport backoff for a prompt call of analyze.
EntersBackoff == an_pc # "prompting" /\ an_pc' = "prompting"

\* C32: the two retry layers compose independently: every prompt call of
\* analyze, the first and each retry after a failed validation, enters the
\* backoff with its attempt counter at 1, its delay at the initial delay
\* and nothing slept or requested yet, whatever the prompt calls before it
\* used up; a prompt call makes at most maxAttempts model requests, so
\* one analyze call makes at most (maxRetries + 1) * maxAttempts = 12 of
\* them, and analyze ends.
C32_RetryLayersCompose ==
    /\ (MaxAppRetries + 1) * DefaultMaxAttempts = 12
    /\ [](model_requests <= (MaxAppRetries + 1) * DefaultMaxAttempts)
    /\ [](an_pc # "idle" => op_calls <= DefaultMaxAttempts)
    /\ [][EntersBackoff =>
            /\ retry_cfg' = DefaultRetryConfig
            /\ attempt' = 1
            /\ delay' = DefaultInitialDelay
            /\ op_calls' = 0
            /\ sleeps' = <<>>]_vars
    /\ <>[]AnalyzeOver

\* C32 witness: four prompt calls of three model requests each, the
\* fourth entered after the third had used up its attempts' delays, and
\* analyze has returned after the twelfth request.
C32_Witness ==
    /\ an_pc = "returned"
    /\ prompt_calls = MaxAppRetries + 1
    /\ model_requests = 12
    /\ op_calls = DefaultMaxAttempts
    /\ Len(sleeps) = DefaultMaxAttempts - 1

(***************************************************************************)
(* The crawler.                                                            *)
(***************************************************************************)
\* the frames of crawlReels on the stack
ReelsFrames == {n \in DOMAIN stack : stack[n].fn = "crawlReels"}

\* C11: in the iteration of a reel whose upload returned undefined, the
\* crawler never gets past the test of the URI: analyze is not called for
\* the reel's recording, upsertReelWithComments is not called for the reel,
\* and a throw at the test is the error "Failed to upload recording to
\* GCloud Storage".
C11_UploadFailureBeforeAnalysis ==
    \A n \in ReelsFrames :
       LET f == stack[n]
       IN f.reel.recording_uri = "undefined" =>
             /\ ~f.reel.analyzed
             /\ ~f.reel.persisted
             /\ f.pc <= Pos("crawlReels", "check_uri")
             /\ (crawl_status = "threw"
                   /\ f.pc = Pos("crawlReels", "check_uri"))
                   => crawl_err = "upload_failed"

\* C11 witness: the upload of the first reel returned undefined and crawl
\* threw the upload-failure error; the one analysis call made is that of
\* the root profile.
C11_Witness ==
    /\ crawl_status = "threw"
    /\ crawl_err = "upload_failed"
    /\ Top.fn = "crawlReels"
    /\ Top.i = 0
    /\ Top.reel.recording_uri = "undefined"
    /\ analysis_calls = 1
    /\ db_reels = {}

\* C12: the re-encoded recording file exists when it is handed to the
\* upload, and once the crawler is past the unlink of the iteration the
\* file is gone, whether the upload returned a URI or undefined; when
\* crawl throws the upload-failure error the file is gone already.
C12_RecordingFileDeleted ==
    \A n \in ReelsFrames :
       LET f == stack[n]
           path == f.reel.recording_path
       IN path # NoFile =>
             /\ f.reel.recording_uri = "unset" => path \in fs_files
             /\ f.pc > Pos("crawlReels", "unlink")
                   => (f.reel.recording_uri # "unset" /\ path \notin fs_files)
             /\ (crawl_status = "threw" /\ crawl_err = "upload_failed")
                   => path \notin fs_files

\* C12 witness: the first reel was uploaded, unlinked and persisted; the
\* upload of the second returned undefined, its file was unlinked and
\* crawl threw the upload-failure error.
C12_Witness ==
    /\ crawl_status = "threw"
    /\ crawl_err = "upload_failed"
    /\ Top.fn = "crawlReels"
    /\ Top.i = 1
    /\ [owner |-> StartingUsername, index |-> 0] \in db_reels
    /\ Top.reel.recording_path = File("reencoded", files_made)
    /\ Top.reel.recording_path \notin fs_files

\* the frames of crawlProfile on the stack
ProfileFrames == {n \in DOMAIN stack : stack[n].fn = "crawlProfile"}

\* the frames of crawlProfile called from the mention loop of crawlReels
MentionFrames == {n \in ProfileFrames : stack[n - 1].fn = "crawlReels"}

\* C13: a crawlProfile call made from the mention loop has crawl_reels =
\* false, is the running frame, and goes from the test of crawl_reels to
\* its return without reaching the Reels tab or crawlReels; at most two
\* crawlProfile frames and one crawlReels frame are active, whoever is
\* mentioned (the root itself included).
C13_MentionVisitsSkipReels ==
    /\ Cardinality(ProfileFrames) <= 2
    /\ Cardinality(ReelsFrames) <= 1
    /\ \A n \in MentionFrames :
          /\ ~stack[n].crawl_reels
          /\ n = Len(stack)
          /\ \/ stack[n].pc <= Pos("crawlProfile", "branch_reels")
             \/ stack[n].pc = Pos("crawlProfile", "return")

\* C13 witness: a reel of the root mentions the root; the visit of that
\* mention has upserted the profile, passed the test of crawl_reels and is
\* about to return, with the root's crawlProfile frame still active.
C13_Witness ==
    /\ crawl_status = "running"
    /\ Len(stack) = 4
    /\ MentionFrames = {4}
    /\ Top.username = StartingUsername
    /\ stack[2].username = StartingUsername
    /\ Top.pc = Pos("crawlProfile", "return")
    /\ Cardinality(ProfileFrames) = 2

\* C14: once a step of the crawler has failed, no step issues a device
\* action, an analysis call or a persistence call any more and the
\* persisted records stay as they are; crawl does not return but throws:
\* at the failed step itself, or, for an upload that returned undefined,
\* no later than the test of the URI.
C14_FailurePropagates ==
    [][ /\ failure # NoFailure =>
              /\ device_actions' = device_actions
              /\ analysis_calls' = analysis_calls
              /\ db_profiles' = db_profiles
              /\ db_reels' = db_reels
        /\ failure' # NoFailure =>
              /\ crawl_status' # "returned"
              /\ failure'.err # "upload_failed" => crawl_status' = "threw"
              /\ crawl_status' = "running" =>
                    stack'[Len(stack')].pc <= Pos("crawlReels", "check_uri")
        /\ crawl_status' = "threw" => failure' # NoFailure
      ]_vars

\* C14 witness: the first reel was persisted, the analysis of the second
\* reel's recording threw, crawl threw that error and main has caught it
\* and exited.
C14_Witness ==
    /\ crawl_status = "threw"
    /\ failure = [err |-> "analysis", fn |-> "crawlReels", line |-> 347,
                  reel |-> 1]
    /\ db_reels = {[owner |-> StartingUsername, index |-> 0]}
    /\ main_logged = "analysis"
    /\ main_pc = "exited"

\* C15: cleanup is never called while crawl is pending and never twice;
\* when main exits after initializeServices returned the container,
\* cleanup has run once, after crawl returned or threw, and has called
\* deleteSession and $disconnect once each, so that the device session and
\* the database handle are released unless the release call itself was
\* rejected.
C15_CleanupOnce ==
    /\ cleanup_runs <= 1
    /\ delete_session_calls <= 1
    /\ disconnect_calls <= 1
    /\ cleanup_runs = 1 => (services /\ crawl_status \in {"returned", "threw"})
    /\ (main_pc = "crawl" /\ crawl_status = "running") =>
          (driver_session = "open" /\ prisma_handle = "open")
    /\ (main_pc = "exited" /\ services) =>
          /\ cleanup_runs = 1
          /\ delete_session_calls = 1
          /\ disconnect_calls = 1
          /\ driver_session \in {"closed", "close_failed"}
          /\ prisma_handle \in {"released", "release_failed"}

\* C15 witness: crawl threw, main caught the error, cleanup ran once and
\* both handles are released at exit.
C15_Witness ==
    /\ main_pc = "exited"
    /\ services
    /\ crawl_status = "threw"
    /\ main_logged = "not_found"
    /\ cleanup_runs = 1
    /\ driver_session = "closed"
    /\ prisma_handle = "released"

(***************************************************************************)
(* scrollToElement and its callers.                                        *)
(***************************************************************************)
\* C16: scrollToElement issues at most maxAttempts swipes; when the loop
\* runs out of attempts it has issued exactly maxAttempts and the method
\* is over; a visibility check that returns true ends the method at once,
\* and no swipe and no settle pause is issued after it.
C16_ScrollBounded ==
    [][ /\ swipes' <= sc_maxAttempts'
        /\ settle_pauses' <= swipes'
        /\ exhausted' =>
              (swipes' = sc_maxAttempts' /\ sc_pc' \notin
                  {"check_visible", "classify", "await_swipe", "await_pause"})
        /\ (sc_pc = "check_visible" /\ last_visible') =>
              sc_pc' = AfterScroll(sc_op)
        /\ last_visible =>
              (swipes' = swipes /\ settle_pauses' = settle_pauses)
      ]_vars

\* C16 witness: a call with maxAttempts = 3 found the element visible at
\* its third check, after two swipes, and has returned.
C16_Witness ==
    /\ sc_op = "scroll"
    /\ sc_maxAttempts = 3
    /\ sc_pc = "returned"
    /\ last_visible
    /\ swipes = 2
    /\ settle_pauses = 2
    /\ ~exhausted

\* C17, as claimed: an element that is not visible and is classified
\* "in-viewport" gets a swipe of length short, up when alignToTop and down
\* otherwise.
C17_InFrameSwipes ==
    (position = "in-viewport" /\ ~last_visible) =>
        /\ swipes >= 1
        /\ last_swipe = [direction |-> IF sc_alignToTop THEN "up" ELSE "down",
                         length |-> "short"]

\* the element as the geometry queries reported it last
ElementAbove == elem.y + elem.height < 0
ElementBelow == elem.y > WindowHeight
ElementLeft == elem.x + elem.width < 0
ElementRight == elem.x > WindowWidth

\* C18: a swipe of scrollToElement is issued only for an element reported
\* outside the viewport, and its direction is down for an element above,
\* up for one below, and, for an element within the vertical extent, right
\* for one to the left and left for one to the right.
C18_SwipeDirection ==
    sc_pc = "await_swipe" =>
        /\ ElementAbove \/ ElementBelow \/ ElementLeft \/ ElementRight
        /\ ElementAbove => last_swipe.direction = "down"
        /\ ElementBelow => last_swipe.direction = "up"
        /\ (~ElementAbove /\ ~ElementBelow /\ ElementLeft)
              => last_swipe.direction = "right"
        /\ (~ElementAbove /\ ~ElementBelow /\ ElementRight)
              => last_swipe.direction = "left"

\* C18 witness: the element is above and to the right of the viewport and
\* the swipe issued for it goes down.
C18_Witness ==
    /\ sc_pc = "await_swipe"
    /\ ElementAbove
    /\ ElementRight
    /\ last_swipe.direction = "down"

\* C19: when the loop of scrollToElement runs out of attempts the method
\* returns: a direct call is over without an error, and
\* tapRandomPointInElement goes on to its geometry queries and its
\* gesture, so that any error of the call is one the driver raised.
C19_ExhaustionReturns ==
    exhausted =>
        /\ sc_err # "exhausted"
        /\ sc_op = "scroll" => (sc_pc = "returned" /\ sc_err = "none")
        /\ sc_op = "tap" =>
              /\ sc_pc \in {"tap_geometry", "await_act", "returned", "threw"}
              /\ sc_pc = "threw" => sc_err = "device"
              /\ sc_pc \in {"await_act", "returned"} => acted # "none"

\* C19 witness: tapRandomPointInElement never saw the element visible in
\* the five attempts of scrollToElement, and its gesture on the element
\* was issued and resolved.
C19_Witness ==
    /\ sc_op = "tap"
    /\ exhausted
    /\ swipes = DefaultScrollAttempts
    /\ ~last_visible
    /\ acted = "tap"
    /\ sc_pc = "returned"

\* C20: isElementVisible returns true exactly when the attribute query
\* gave the string "true"; a rejected query gives false and no error
\* leaves the method.
C20_VisibleOnlyOnTrue ==
    /\ sc_err # "visibility"
    /\ last_attr # "none" => (last_visible <=> last_attr = "true")
    /\ last_attr = "error" => ~last_visible

\* C20 witness: the attribute query was rejected, the element counted as
\* not visible and scrollToElement went on to classify it.
C20_Witness ==
    /\ last_attr = "error"
    /\ ~last_visible
    /\ sc_pc = "classify"
    /\ sc_err = "none"

(***************************************************************************)
(* Claims about the coordinates of the gestures (SpecGesture, SpecScroll). *)
(***************************************************************************)
InFrame(p, screen) ==
    /\ 0 <= p.x /\ p.x <= screen.width
    /\ 0 <= p.y /\ p.y <= screen.height

InBox(p, e) ==
    /\ e.x <= p.x /\ p.x <= e.x + e.width
    /\ e.y <= p.y /\ p.y <= e.y + e.height

\* C21: the start and the end that swipeScreen and swipeStartingFromElement
\* hand to the driver lie within the frame, [0, width] x [0, height], and
\* those of swipeWithinElement lie within the bounding box of the element,
\* for every direction, length, handedness, frame and element geometry.
C21_SwipeCoordinatesInBounds ==
    gesture.issued = "swipe" =>
       /\ gesture.op \in {"swipeScreen", "swipeStartingFromElement"} =>
              /\ InFrame(gesture.from, gesture.screen)
              /\ InFrame(gesture.to, gesture.screen)
       /\ gesture.op = "swipeWithinElement" =>
              /\ InBox(gesture.from, gesture.element)
              /\ InBox(gesture.to, gesture.element)

\* C22: tapRandomPointInElement taps a point (x, y) with
\* left + 5 <= x < left + width - 5 and top + 5 <= y < top + height - 5
\* whenever the element is wider and higher than 10; otherwise it issues
\* an element click and no coordinate tap.
C22_TapPointInPaddedBox ==
    sc_op = "tap" /\ acted # "none" =>
       IF elem.width > 10 /\ elem.height > 10
       THEN /\ acted = "tap"
            /\ elem.x + 5 <= tap_point.x
            /\ tap_point.x < elem.x + elem.width - 5
            /\ elem.y + 5 <= tap_point.y
            /\ tap_point.y < elem.y + elem.height - 5
       ELSE /\ acted = "click"
            /\ tap_point = NoPoint

\* a tap on a point off the corner of the padded box has settled
C22_Witness ==
    /\ sc_op = "tap"
    /\ sc_pc = "returned"
    /\ acted = "tap"
    /\ tap_point.x > elem.x + 5
    /\ tap_point.y > elem.y + 5

\* C23: the point tapRandomPointAboveElement taps is strictly above the
\* element, y < top, and within the screen, for every position of the
\* element, handedness and verticalOffset.
C23_TapAboveElement ==
    gesture.issued = "tap" =>
       /\ gesture.to.y < gesture.element.y
       /\ InFrame(gesture.to, gesture.screen)

\* to is not on the other side of from than the direction asks for
Displaced(from, to, direction) ==
    CASE direction = "up" -> to.y <= from.y
      [] direction = "down" -> to.y >= from.y
      [] direction = "left" -> to.x <= from.x
      [] direction = "right" -> to.x >= from.x

\* C33: the end that swipeScreen, swipeWithinElement and
\* swipeStartingFromElement hand to the driver is displaced from the
\* start in the requested direction along the primary axis and never in
\* the opposite one, for every handedness, frame and element that passes
\* the size guard.
C33_SwipeDisplacedInDirection ==
    gesture.issued = "swipe" =>
        Displaced(gesture.from, gesture.to, gesture.direction)

\* What holds of the swipes: those of swipeScreen and of
\* swipeWithinElement are displaced in the requested direction, and so
\* are those of swipeStartingFromElement whose start lies within the
\* margins of the screen that the end is kept to.
C33_DisplacedWithinMargins ==
    (/\ gesture.issued = "swipe"
     /\ gesture.op = "swipeStartingFromElement" =>
            /\ 10 <= gesture.from.x
            /\ gesture.from.x <= gesture.screen.width - 10
            /\ 10 <= gesture.from.y
            /\ gesture.from.y <= gesture.screen.height - 10) =>
        Displaced(gesture.from, gesture.to, gesture.direction)

\* a swipe to the left from an element that lies within the screen, at
\* its left edge, has been handed to the driver with its end to the right
\* of its start
C33_LeftSwipeEndsRight ==
    /\ gesture.issued = "swipe"
    /\ gesture.op = "swipeStartingFromElement"
    /\ gesture.direction = "left"
    /\ gesture.element.x = 0
    /\ gesture.element.y > 0
    /\ gesture.element.y + gesture.element.height < gesture.screen.height
    /\ gesture.to.x > gesture.from.x

(***************************************************************************)
(* Claims about calculateCost (SpecCost).                                  *)
(***************************************************************************)
\* input_tokens * input_rate + output_tokens * output_rate for the result
\* at hand, in tenths of a millionth of a dollar, a missing count being 0
ExactCostTenths ==
    LET rate == ModelPricing(cost_model)
        tokens(n) == IF n = Undefined THEN 0 ELSE n
    IN IF cost_usage.present
       THEN tokens(cost_usage.promptTokenCount) * rate.inputCostPer1M
               + tokens(cost_usage.candidatesTokenCount)
                    * rate.outputCostPer1M
       ELSE 0

\* C29: calculateCost returns, in millionths of a dollar, an integer
\* nearest to input_tokens * input_rate + output_tokens * output_rate;
\* missing usage fields count as zero tokens, so that absent usage metadata
\* costs 0; equal inputs give equal results.
C29_CostNearestMillionth ==
    \A i \in 1..Len(cost_results) :
       /\ 10 * cost_results[i] - ExactCostTenths <= 5
       /\ ExactCostTenths - 10 * cost_results[i] <= 5
       /\ ~cost_usage.present => cost_results[i] = 0
       /\ cost_results[i] = cost_results[1]

\* two calls on a result with one count missing and a total that
\* Math.round rounds up
C29_Witness ==
    /\ Len(cost_results) = 2
    /\ cost_usage.present
    /\ cost_usage.promptTokenCount = Undefined
    /\ cost_usage.candidatesTokenCount > 0
    /\ 10 * cost_results[2] > ExactCostTenths

(***************************************************************************)
(* Claims about the reel pipeline of crawlReels (SpecCrawl).               *)
(***************************************************************************)
\* the calls of crawlReels on the stack
ReelsCalls == {stack[n] : n \in ReelsFrames}

\* the frame is at or beyond the step of a kind in its iteration
Reached(f, kind) == f.pc >= Pos("crawlReels", kind)

\* C24: for every reel the comment-scroll bound computed from the comment
\* counter equals min(floor(comment_count / 10), 8); it is an integer
\* between 0 and 8, and 4 for comment_count = 47.
C24_ScrollBound ==
    \A f \in ReelsCalls :
       Reached(f, "start_recording") /\ f.pc < Pos("crawlReels", "return") =>
          /\ ~f.reel.scrolls.nan
          /\ f.reel.scrolls.n \in 0..8
          /\ ~f.reel.comment_count.nan
          /\ f.reel.scrolls.n = Min(f.reel.comment_count.n \div 10, 8)
          /\ f.reel.comment_count = Num(47) => f.reel.scrolls = Num(4)

\* C25: between startScreenRecording and saveScreenRecording of a reel
\* exactly one scroll gesture is issued, whatever the comment count, and
\* it is followed by one pacing pause.
C25_OneScrollPerRecording ==
    \A f \in ReelsCalls :
       /\ f.reel.recorded_swipes <= 1
       /\ f.reel.recorded_pauses <= f.reel.recorded_swipes
       /\ crawl_status = "running" /\ Reached(f, "save_recording")
             /\ f.pc < Pos("crawlReels", "return") =>
             /\ f.reel.recorded_swipes = 1
             /\ f.reel.recorded_pauses = 1
             /\ f.reel.scroll = 1

\* the recording of a reel whose computed bound is 4 was saved
C25_Witness ==
    \E f \in ReelsCalls :
       /\ f.reel.comment_count = Num(47)
       /\ f.reel.scrolls = Num(4)
       /\ f.reel.recording_path # NoFile
       /\ f.reel.recorded_swipes = 1
       /\ f.reel.recorded_pauses = 1

\* the limit of a call of crawlReels is not drawn again
LimitKept ==
    \A d \in DOMAIN stack :
       d \in DOMAIN stack' /\ stack[d].fn = "crawlReels"
          /\ stack'[d].fn = "crawlReels" /\ stack[d].draws = 1 =>
          /\ stack'[d].draws = 1
          /\ stack'[d].limit = stack[d].limit

\* C26: the reel limit of a profile visit is drawn once, before the first
\* reel, as an integer of min..max, 18..24 by default; absent failures
\* the reel pipeline runs limit times, with one persistence call each.
C26_LimitDrawnOnce ==
    /\ [](/\ \A k \in 0..(RandomSteps - 1) :
               DrawnLimit(k, DefaultRange) \in 18..24
          /\ \A f \in ReelsCalls :
               /\ f.draws <= 1
               /\ f.pc > 1 =>
                     /\ f.draws = 1
                     /\ ReelRange.min <= f.limit /\ f.limit <= ReelRange.max
               /\ f.pc = 1 => f.i = 0 /\ f.upserts = 0
               /\ f.i <= f.limit
               /\ f.pc = Pos("crawlReels", "reel_next") =>
                     f.upserts = f.i + 1
               /\ f.pc = Pos("crawlReels", "reel_test") => f.upserts = f.i
               /\ f.pc = Pos("crawlReels", "return") =>
                     f.i = f.limit /\ f.upserts = f.limit)
    /\ [][LimitKept]_vars

\* crawlReels is at its end after the largest limit of the range
C26_Witness ==
    \E f \in ReelsCalls :
       /\ crawl_status = "running"
       /\ f.pc = Pos("crawlReels", "return")
       /\ f.limit = ReelRange.max
       /\ f.upserts = ReelRange.max

\* no device call is issued
NoDeviceCallIssued ==
    /\ device_actions' = device_actions
    /\ delete_session_calls' = delete_session_calls
    /\ driver_starts' = driver_starts
    /\ driver_stops' = driver_stops

\* C27: the four reads of a reel are issued together and have all completed
\* before any later device call is issued: while a read is in flight the
\* crawler awaits the four, and no other device call is issued.
C27_ReadsJoinedBeforeActions ==
    /\ [](pending_reads > 0 /\ crawl_status = "running" =>
             Cur.kind = "join_reads")
    /\ [][pending_reads = 0 /\ pending_reads' > 0 => pending_reads' = 4]_vars
    /\ [][pending_reads > 0 => NoDeviceCallIssued]_vars

\* the usernames of the mention links of a caption, in their order
MentionedIn(mentions) ==
    [j \in 1..Len(mentions) |-> MentionUsername(mentions[j])]

\* C28: a reel is handed to persistence with collaborators = [the username
\* of the profile being crawled] and mentions = the usernames of the
\* mention links found for the reel, in the order of the visits, and only
\* after the comment analysis of the reel has returned.
C28_PersistedReelData ==
    \A f \in ReelsCalls :
       f.reel.persisted =>
          /\ f.reel.reel_data.collaborator_usernames = <<f.username>>
          /\ f.reel.reel_data.mentioned_usernames =
                MentionedIn(f.reel.mentions)
          /\ f.reel.analyzed
          /\ analysis_calls > 0

\* a reel with two mention links, both visited, was persisted
C28_Witness ==
    \E f \in ReelsCalls :
       /\ f.reel.persisted
       /\ crawl_status = "running"
       /\ f.reel.mentions = <<" @b ", "@a">>
       /\ f.reel.reel_data.mentioned_usernames = <<"b", "a">>
       /\ {"a", "b"} \subseteq db_profiles

(***************************************************************************)
(* Claims about JSON mode under the retry layer (SpecAnalyze).             *)
(***************************************************************************)
\* a request was just answered with text that JSON.parse rejects
ParseFailed ==
    /\ op_calls' = op_calls + 1
    /\ last_outcome' = Throws(ErrSyntax)

\* C30: in JSON mode a response whose text fails to parse is a transient
\* failure: the backoff layer sleeps to issue the request again while
\* attempts remain, at most maxAttempts requests in all; the parse error
\* never reaches the caller, only the error of the exhausted retries.
C30_ParseFailureTransient ==
    /\ [](an_err # ErrSyntax /\ retry_err # ErrSyntax)
    /\ [](op_calls <= retry_cfg.maxAttempts)
    /\ [][ParseFailed =>
            IF attempt < retry_cfg.maxAttempts
            THEN retry_pc' = "sleeping" /\ an_pc' = "prompting"
            ELSE /\ retry_pc' = "threw"
                 /\ retry_err' = ErrExhausted
                 /\ an_pc' = "threw"
                 /\ an_err' = ErrExhausted]_vars

\* every request of a prompt call was answered with unparsable text
C30_Witness ==
    /\ an_pc = "threw"
    /\ an_err = ErrExhausted
    /\ last_outcome = Throws(ErrSyntax)
    /\ op_calls = retry_cfg.maxAttempts
    /\ Len(sleeps) = retry_cfg.maxAttempts - 1

(***************************************************************************)
(* Claims about what the crawl leaves behind (SpecCrawl).                  *)
(***************************************************************************)
CrawlOver == crawl_status \in {"returned", "threw"}

\* C36: whenever the crawl has ended, by returning or by an error raised
\* at any step of the pipeline of a reel, no screen recording is active:
\* the flag is false and the driver captures nothing, cleanup's
\* deleteSession not yet issued or issued.
C36_NoRecordingLeftActive ==
    CrawlOver => (~is_screen_recording /\ ~capture_running)

\* What holds: a crawl that returned, and a crawl that threw at a step
\* before startScreenRecording or after saveScreenRecording of the reel at
\* hand, leaves no recording active.
C36_NoneActiveOutsideRecording ==
    (CrawlOver /\
     (crawl_status = "threw" =>
         /\ driver_starts = driver_stops
         /\ ~(failure.fn = "crawlReels" /\ failure.line \in {312, 329}))) =>
        (~is_screen_recording /\ ~capture_running)

\* the scroll of a recording was rejected, the crawl has thrown, and
\* cleanup has closed the session with the recording still active
C36_SessionClosedWhileRecording ==
    /\ crawl_status = "threw"
    /\ failure.fn = "crawlReels"
    /\ main_pc = "exited"
    /\ driver_session = "closed"
    /\ is_screen_recording
    /\ capture_running
    /\ driver_starts = driver_stops + 1

\* C37: every temporary file the crawl made for a captured artifact, the
\* screenshot of a profile, the raw recording and the transcoded
\* recording, has been deleted when the step of the pipeline that uses it
\* is over, so a crawl that returns leaves no temporary file behind,
\* however many profiles and reels it processed.
C37_TemporaryFilesDeleted ==
    crawl_status = "returned" => fs_files = {}

\* What holds: a crawl that returns has deleted every transcoded
\* recording and nothing else; the screenshot of every profile and the raw
\* recording of every reel are still there.
C37_TranscodedOnlyDeleted ==
    crawl_status = "returned" =>
        /\ \A f \in fs_files : f.kind \in {"screenshot", "recording"}
        /\ Cardinality(fs_files) = files_made
        /\ files_made >= Cardinality(db_profiles) + Cardinality(db_reels)

\* a crawl of one profile with two reels has returned and left three
\* files or more
C37_LeftoverGrows ==
    /\ crawl_status = "returned"
    /\ Cardinality(db_reels) = 2
    /\ Cardinality(fs_files) >= 3
    /\ File("screenshot", 1) \in fs_files
    /\ \E n \in 1..files_made : File("recording", n) \in fs_files

(***************************************************************************)
(* Claims about the accounts a reel is linked to (SpecCrawl).              *)
(***************************************************************************)
\* the usernames of the collaborators and mentions of a reel
LinkedUsernames(reel_data) ==
    {reel_data.collaborator_usernames[k] :
        k \in DOMAIN reel_data.collaborator_usernames}
    \cup {reel_data.mentioned_usernames[k] :
            k \in DOMAIN reel_data.mentioned_usernames}

\* C38: when a reel is handed to upsertReelWithComments, upsertProfile has
\* completed for the profile being crawled and for every profile of the
\* reel's mentions, and every collaborator and mention username of the reel
\* is found among the stored accounts, so that no link is skipped.
C38_LinksResolve ==
    \A f \in ReelsCalls :
       f.reel.persisted =>
          /\ LinkedUsernames(f.reel.reel_data) \subseteq db_profiles
          /\ LinkedUsernames(f.reel.reel_data) \subseteq db_accounts
          /\ f.reel.links_skipped = {}

\* What holds of the order: upsertProfile has completed for the profile
\* being crawled and for every mentioned profile before the reel is handed
\* over, and it has stored one account for each.
C38_ProfilesUpsertedFirst ==
    \A f \in ReelsCalls :
       f.reel.persisted =>
          /\ f.username \in db_profiles
          /\ LinkedUsernames(f.reel.reel_data) \subseteq db_profiles
          /\ Cardinality(db_accounts) >= 1

\* What holds of the links: the ones skipped are those of the profiles
\* whose analysis returned another username than the one the crawler
\* opened the profile by.
C38_SkippedOnlyWhenMisread ==
    \A f \in ReelsCalls :
       f.reel.persisted =>
          /\ f.reel.links_skipped =
                LinkedUsernames(f.reel.reel_data) \ db_accounts
          /\ MisreadHandle \notin db_accounts => f.reel.links_skipped = {}

\* a reel that mentions b was persisted after the profile of b had been
\* stored under another username, and the mention was skipped
C38_MentionSkipped ==
    \E f \in ReelsCalls :
       /\ f.reel.persisted
       /\ crawl_status = "running"
       /\ f.reel.reel_data.mentioned_usernames = <<"b">>
       /\ "b" \in db_profiles
       /\ db_accounts = {"a", MisreadHandle}
       /\ f.reel.links_skipped = {"b"}

(***************************************************************************)
(* Claims about ReelsService.upsertReel (SpecReels).                       *)
(***************************************************************************)
\* the calls made so far were all given one caption and one uploaded_at
\* text
SameReelThroughout ==
    \A j \in DOMAIN reel_log :
       /\ reel_log[j].caption = reel_log[1].caption
       /\ reel_log[j].uploaded_at = reel_log[1].uploaded_at

\* the row holds the counters of the reel_data
HoldsCounters(row, reel_data) ==
    /\ row.like_count = reel_data.like_count
    /\ row.comment_count = reel_data.comment_count
    /\ row.share_count = reel_data.share_count

\* C39: upsertReel is idempotent: after two calls or more with the same
\* caption and the same uploaded_at text, whatever time passed between
\* them, the table holds exactly one row, with the counters of the latest
\* call and with links to the collaborators and mentions of the latest
\* call.
C39_UpsertReelIdempotent ==
    Len(reel_log) >= 2 /\ SameReelThroughout =>
       /\ Len(reel_rows) = 1
       /\ HoldsCounters(reel_rows[1], reel_log[Len(reel_log)])
       /\ Connect(reel_log[Len(reel_log)].collaborator_usernames,
                  db_accounts) \subseteq reel_rows[1].collaborators
       /\ Connect(reel_log[Len(reel_log)].mentioned_usernames,
                  db_accounts) \subseteq reel_rows[1].mentions

\* What holds: with a text that is a date, or with no time passed between
\* the calls, there is one row; it holds the counters of the latest call,
\* the collaborators of all the calls and the mentions of the first.
C39_OneRowForOneInstant ==
    /\ Len(reel_log) >= 2
    /\ SameReelThroughout
    /\ reel_log[1].uploaded_at \in DateTexts \/ clock_now = 0
    => /\ Len(reel_rows) = 1
       /\ HoldsCounters(reel_rows[1], reel_log[Len(reel_log)])
       /\ reel_rows[1].collaborators =
             UNION {Connect(reel_log[j].collaborator_usernames, db_accounts) :
                       j \in DOMAIN reel_log}
       /\ reel_rows[1].mentions =
             Connect(reel_log[1].mentioned_usernames, db_accounts)

\* the same reel_data with the text "2 hours ago" was upserted twice, one
\* millisecond apart, and the table holds two rows for it
C39_RelativeTextDuplicates ==
    /\ Len(reel_log) = 2
    /\ reel_log[1] = reel_log[2]
    /\ reel_log[1].uploaded_at = <<"2", "hours", "ago">>
    /\ Len(reel_rows) = 2
    /\ reel_rows[1].caption = reel_rows[2].caption
    /\ reel_rows[2].uploaded_at = reel_rows[1].uploaded_at + 1

\* a reel with a date was upserted without mentions and then with the
\* mention of a stored account: one row, and no mention on it
C39_MentionsNotUpdated ==
    /\ Len(reel_log) = 2
    /\ SameReelThroughout
    /\ reel_log[1].uploaded_at \in DateTexts
    /\ reel_log[1].mentioned_usernames = <<>>
    /\ reel_log[2].mentioned_usernames = <<"b">>
    /\ "b" \in db_accounts
    /\ Len(reel_rows) = 1
    /\ reel_rows[1].mentions = {}

(***************************************************************************)
(* Claims about parseResultIntoJSON (SpecParse).                           *)
(***************************************************************************)
\* the payload holds the characters of the language tag
HoldsLanguageTag(payload) == IndexOfFrom(payload, LanguageTag, 1) # 0

\* C31: stripping the fencing removes only the code-block markers and the
\* language tag: whatever the payload and however it is wrapped, the call
\* gives the value that parsing the payload itself gives; in particular
\* an unfenced payload that holds the characters of the language tag is
\* parsed unchanged.
C31_FenceStrippingOnly ==
    parse_out # NoParse => parse_out = JsonParse(parse_payload)

\* What holds of the call: a payload wrapped with the language tag, and a
\* payload without the characters of the language tag however it is
\* wrapped, are parsed to the value of the payload.
C31_TaggedOrTagFree ==
    (parse_out # NoParse /\
     (parse_fencing = "tagged" \/ ~HoldsLanguageTag(parse_payload))) =>
        parse_out = JsonParse(parse_payload)

\* an unfenced payload with the key "json" has been parsed
C31_UnfencedTagParsed ==
    /\ parse_out # NoParse
    /\ parse_fencing = "none"
    /\ JsonParse(parse_payload).key = LanguageTag
    /\ parse_out.kind = "object"
    /\ parse_out.key = <<>>

====
